---- MODULE Spec2Model ----
(***************************************************************************)
(* Model of the cluster scheduler overview page: the resource-quantity     *)
(* parsers (utils.ts), the per-node aggregation and the derived            *)
(* structures of SchedulerPage, and the cluster statistics of              *)
(* ClusterOverview.                                                        *)
(*                                                                         *)
(* Quantity strings are sequences of one-character strings.  Numbers are   *)
(* exact dyadic-scaled rationals (n/d) * 2^e with n and d odd, so that     *)
(* millicores and binary byte units up to Ei are both representable;       *)
(* IEEE rounding of the JavaScript doubles is not modelled.                *)
(***************************************************************************)
EXTENDS Integers, Sequences, FiniteSets, TLC

(***************************************************************************)
(* Bounds                                                                  *)
(***************************************************************************)
MaxLen == 4
MaxNodes == 2
MaxPods == 2
MaxSample == 101
MaxFailurePods == 3
MaxMantissa == 9
MaxRoleNodes == 3
MaxListedPods == 3

(***************************************************************************)
(* Numbers                                                                 *)
(***************************************************************************)
RECURSIVE Pow(_, _)
Pow(b, x) == IF x = 0 THEN 1 ELSE b * Pow(b, x - 1)

Abs(i) == IF i < 0 THEN 0 - i ELSE i

RECURSIVE GCD(_, _)
GCD(a, b) == IF b = 0 THEN a ELSE GCD(b, a % b)

\* the exponent of the largest power of two dividing i (i > 0)
RECURSIVE TwoAdic(_)
TwoAdic(i) == IF i % 2 = 0 THEN 1 + TwoAdic(i \div 2) ELSE 0

Zero == [k |-> "num", n |-> 0, d |-> 1, e |-> 0]
NaN == [k |-> "nan", n |-> 0, d |-> 1, e |-> 0]
Infinity == [k |-> "inf", n |-> 1, d |-> 1, e |-> 0]
NegInfinity == [k |-> "inf", n |-> 0 - 1, d |-> 1, e |-> 0]

\* the number (n/d) * 2^e in canonical form (d > 0): the fraction reduced,
\* then the powers of two moved into the exponent
mkOdd(neg, n1, d1, e, tn, td) ==
  [k |-> "num", n |-> (IF neg THEN 0 - 1 ELSE 1) * (n1 \div Pow(2, tn)),
   d |-> d1 \div Pow(2, td), e |-> e + tn - td]

mkReduced(neg, n1, d1, e) == mkOdd(neg, n1, d1, e, TwoAdic(n1), TwoAdic(d1))

MkNum(n, d, e) ==
  IF n = 0 THEN Zero
  ELSE mkReduced(n < 0, Abs(n) \div GCD(Abs(n), d), d \div GCD(Abs(n), d), e)

FromInt(i) == MkNum(i, 1, 0)
Ratio(a, b) == MkNum(a, b, 0)

IsNaN(x) == x.k = "nan"
IsFinite(x) == x.k = "num"
Sign(x) == IF x.k = "nan" \/ x.n = 0 THEN 0 ELSE IF x.n < 0 THEN 0 - 1 ELSE 1

NumNeg(x) == IF x.k = "nan" THEN NaN ELSE [x EXCEPT !.n = 0 - x.n]

\* x + y of JavaScript numbers
NumAdd(x, y) ==
  IF x.k = "nan" \/ y.k = "nan" THEN NaN
  ELSE IF x.k = "inf" /\ y.k = "inf" THEN (IF x.n = y.n THEN x ELSE NaN)
  ELSE IF x.k = "inf" THEN x
  ELSE IF y.k = "inf" THEN y
  ELSE IF x.n = 0 THEN y
  ELSE IF y.n = 0 THEN x
  ELSE LET em == IF x.e < y.e THEN x.e ELSE y.e
       IN MkNum(x.n * Pow(2, x.e - em) * y.d + y.n * Pow(2, y.e - em) * x.d,
                x.d * y.d, em)

\* x * y and x / y for a finite x and positive integers
NumMulInt(x, i) == IF x.k = "num" THEN MkNum(x.n * i, x.d, x.e) ELSE x
NumDivInt(x, i) == IF x.k = "num" THEN MkNum(x.n, x.d * i, x.e) ELSE x

\* x < y, x > y, x === y of JavaScript numbers (false when either is NaN)
NumLt(x, y) == /\ x.k # "nan" /\ y.k # "nan"
               /\ x # y
               /\ IF x.k = "inf" THEN x.n < 0
                  ELSE IF y.k = "inf" THEN y.n > 0
                  ELSE x.n * y.d * Pow(2, x.e - (IF x.e < y.e THEN x.e ELSE y.e))
                         < y.n * x.d * Pow(2, y.e - (IF x.e < y.e THEN x.e ELSE y.e))
NumGt(x, y) == NumLt(y, x)

\* x / y of JavaScript numbers, for finite x and finite non-zero y
NumDiv(x, y) ==
  LET p == MkNum(x.n * y.d, x.d * Abs(y.n), x.e - y.e)
  IN IF y.n < 0 THEN NumNeg(p) ELSE p

\* Math.max(x, y), Math.min(x, y)
MathMax(x, y) == IF x.k = "nan" \/ y.k = "nan" THEN NaN
                 ELSE IF NumLt(x, y) THEN y ELSE x
MathMin(x, y) == IF x.k = "nan" \/ y.k = "nan" THEN NaN
                 ELSE IF NumLt(y, x) THEN y ELSE x

\* x || 0 for a number x: NaN and 0 are falsy
OrZero(x) == IF x.k = "nan" \/ x = Zero THEN Zero ELSE x

(***************************************************************************)
(* Strings and parseFloat                                                  *)
(***************************************************************************)
Digit == {"0", "1", "2", "3", "4", "5", "6", "7", "8", "9"}
DigitVal(c) == CASE c = "0" -> 0 [] c = "1" -> 1 [] c = "2" -> 2
                 [] c = "3" -> 3 [] c = "4" -> 4 [] c = "5" -> 5
                 [] c = "6" -> 6 [] c = "7" -> 7 [] c = "8" -> 8
                 [] c = "9" -> 9
WhiteSpace == {" "}
MemoryUnitLetter == {"K", "M", "G", "T", "P", "E"}
InfinityLiteral == <<"I", "n", "f", "i", "n", "i", "t", "y">>

\* the first index at or after i whose character is not in the set S
RECURSIVE SkipWhile(_, _, _)
SkipWhile(s, i, S) ==
  IF i <= Len(s) /\ s[i] \in S THEN SkipWhile(s, i + 1, S) ELSE i

\* the value of the digit run s[i..j-1], 0 for an empty run
RECURSIVE DigitsValue(_, _, _)
DigitsValue(s, i, j) ==
  IF j <= i THEN 0 ELSE DigitsValue(s, i, j - 1) * 10 + DigitVal(s[j - 1])

StartsWithAt(s, i, lit) ==
  /\ i + Len(lit) - 1 <= Len(s)
  /\ \A x \in 1..Len(lit) : s[i + x - 1] = lit[x]

\* parseFloat once the scan is done: NaN without a digit, else the mantissa
\* mant / frac times or divided by the power of ten scale
floatNumber(neg, digits, mant, frac, scale, eNeg) ==
  IF digits = 0 THEN NaN
  ELSE MkNum((IF neg THEN 0 - 1 ELSE 1) * (IF eNeg THEN mant ELSE mant * scale),
             IF eNeg THEN frac * scale ELSE frac, 0)

\* the sign, the integer digits s[i1..j-1], the fraction digits s[f..x-1]
\* and the exponent digits s[e0..e1-1] (eNeg: a negative exponent;
\* e1 <= e0: no exponent)
floatValue(s, neg, i1, j, f, x, eNeg, e0, e1) ==
  floatNumber(neg, (j - i1) + (x - f),
              DigitsValue(s, i1, j) * Pow(10, x - f) + DigitsValue(s, f, x),
              Pow(10, x - f),
              Pow(10, IF e1 > e0 THEN DigitsValue(s, e0, e1) ELSE 0),
              eNeg)

\* the exponent part, which starts at s[x] when that is "e" or "E" and
\* digits follow the optional sign
floatExponentDigits(s, neg, i1, j, f, x, hasExponent, eNeg, e0) ==
  floatValue(s, neg, i1, j, f, x, eNeg, e0,
             IF hasExponent THEN SkipWhile(s, e0, Digit) ELSE e0)

floatExponentSign(s, neg, i1, j, f, x, hasExponent, hasSign) ==
  floatExponentDigits(s, neg, i1, j, f, x, hasExponent,
                      hasSign /\ s[x + 1] = "-",
                      IF hasSign THEN x + 2
                      ELSE IF hasExponent THEN x + 1 ELSE x)

floatExponentMark(s, neg, i1, j, f, x, hasExponent) ==
  floatExponentSign(s, neg, i1, j, f, x, hasExponent,
                    hasExponent /\ x + 1 <= Len(s) /\ s[x + 1] \in {"+", "-"})

floatExponent(s, neg, i1, j, f, x) ==
  floatExponentMark(s, neg, i1, j, f, x, x <= Len(s) /\ s[x] \in {"e", "E"})

\* the fraction part, which starts after a "." at s[j]
floatFractionDigits(s, neg, i1, j, hasPoint) ==
  floatExponent(s, neg, i1, j, IF hasPoint THEN j + 1 ELSE j,
                IF hasPoint THEN SkipWhile(s, j + 1, Digit) ELSE j)

floatFraction(s, neg, i1, j) ==
  floatFractionDigits(s, neg, i1, j, j <= Len(s) /\ s[j] = ".")

\* the number that starts at s[i1], after the white space and the sign
floatUnsigned(s, neg, i1) ==
  IF StartsWithAt(s, i1, InfinityLiteral)
    THEN (IF neg THEN NegInfinity ELSE Infinity)
  ELSE floatFraction(s, neg, i1, SkipWhile(s, i1, Digit))

floatSigned(s, i0) ==
  floatUnsigned(s, i0 <= Len(s) /\ s[i0] = "-",
                IF i0 <= Len(s) /\ s[i0] \in {"+", "-"} THEN i0 + 1 ELSE i0)

\* JavaScript parseFloat: leading white space, an optional sign, then the
\* longest prefix that is a decimal literal (or Infinity); NaN when none
ParseFloat(s) == floatSigned(s, SkipWhile(s, 1, WhiteSpace))

(***************************************************************************)
(* Quantity parsers (utils.ts)                                             *)
(***************************************************************************)
\* the end of a match of \d+(?:\.\d+)? anchored at index 1: the index after
\* the literal, or 0 when s does not start with one
DecimalEnd(s) ==
  LET j == SkipWhile(s, 1, Digit)
      x == IF j <= Len(s) /\ s[j] = "." THEN SkipWhile(s, j + 1, Digit) ELSE j
  IN IF j = 1 THEN 0
     ELSE IF j <= Len(s) /\ s[j] = "." /\ x > j + 1 THEN x
     ELSE j

\* quantity.match(/^(\d+(?:\.\d+)?)([m])?$/)
cpuMatch(quantity) ==
  LET v == DecimalEnd(quantity)
  IN IF v = 0 THEN [ok |-> FALSE, value |-> <<>>, suffix |-> <<>>]
     ELSE IF v = Len(quantity) + 1
       THEN [ok |-> TRUE, value |-> quantity, suffix |-> <<>>]
     ELSE IF v = Len(quantity) /\ quantity[v] = "m"
       THEN [ok |-> TRUE, value |-> SubSeq(quantity, 1, v - 1), suffix |-> <<"m">>]
     ELSE [ok |-> FALSE, value |-> <<>>, suffix |-> <<>>]

parseCPUQuantityMillisAsCores(quantity) ==
  IF quantity = <<>> THEN Zero
  ELSE LET m == cpuMatch(quantity)
       IN IF m.ok THEN ParseFloat(m.value)
          ELSE OrZero(ParseFloat(quantity))

\* the result for the match m and the value v of parseFloat
cpuValue(m, v) ==
  IF m.ok THEN (IF m.suffix = <<"m">> THEN NumDivInt(v, 1000) ELSE v)
  ELSE OrZero(v)

cpuMatched(quantity, m) ==
  cpuValue(m, ParseFloat(IF m.ok THEN m.value ELSE quantity))

parseCPUQuantity(quantity) ==
  IF quantity = <<>> THEN Zero ELSE cpuMatched(quantity, cpuMatch(quantity))

\* the units table of parseMemoryQuantity, as the exponent n of 1024^n
units(unit) == CASE unit = <<"K", "i">> -> 1 [] unit = <<"M", "i">> -> 2
                 [] unit = <<"G", "i">> -> 3 [] unit = <<"T", "i">> -> 4
                 [] unit = <<"P", "i">> -> 5 [] unit = <<"E", "i">> -> 6

\* quantity.match(/^(\d+(?:\.\d+)?)([KMGTPE]i)?$/)
memoryMatch(quantity) ==
  LET v == DecimalEnd(quantity)
  IN IF v = 0 THEN [ok |-> FALSE, value |-> <<>>, unit |-> <<>>]
     ELSE IF v = Len(quantity) + 1
       THEN [ok |-> TRUE, value |-> quantity, unit |-> <<>>]
     ELSE IF /\ v + 1 = Len(quantity)
             /\ quantity[v] \in MemoryUnitLetter
             /\ quantity[v + 1] = "i"
       THEN [ok |-> TRUE, value |-> SubSeq(quantity, 1, v - 1),
             unit |-> SubSeq(quantity, v, v + 1)]
     ELSE [ok |-> FALSE, value |-> <<>>, unit |-> <<>>]

\* parseMemoryQuantity that drops the unit's factor
parseMemoryQuantityUnitIgnored(quantity) ==
  IF quantity = <<>> THEN Zero
  ELSE LET m == memoryMatch(quantity)
       IN IF m.ok THEN ParseFloat(m.value)
          ELSE OrZero(ParseFloat(quantity))

\* parseMemoryQuantity without the parseFloat fallback: a string that does
\* not match gives 0
parseMemoryQuantityNoFallback(quantity) ==
  LET m == memoryMatch(quantity)
  IN IF quantity # <<>> /\ m.ok
       THEN (IF m.unit # <<>>
               THEN LET v == ParseFloat(m.value)
                    IN MkNum(v.n, v.d, v.e + 10 * units(m.unit))
             ELSE ParseFloat(m.value))
     ELSE Zero

\* the result for the match m and the value v of parseFloat
memoryValue(m, v) ==
  IF m.ok THEN (IF m.unit # <<>> THEN MkNum(v.n, v.d, v.e + 10 * units(m.unit))
                ELSE v)
  ELSE OrZero(v)

memoryMatched(quantity, m) ==
  memoryValue(m, ParseFloat(IF m.ok THEN m.value ELSE quantity))

parseMemoryQuantity(quantity) ==
  IF quantity = <<>> THEN Zero
  ELSE memoryMatched(quantity, memoryMatch(quantity))

\* quantity.match(/[KMGTPE]i?$/)
endsWithUnitLetter(quantity) ==
  LET n == Len(quantity)
  IN \/ n >= 1 /\ quantity[n] \in MemoryUnitLetter
     \/ n >= 2 /\ quantity[n] = "i" /\ quantity[n - 1] \in MemoryUnitLetter

\* the plain-number branch taken whatever the string ends with
genericValueAnySuffix(quantity, numericValue) ==
  IF ~IsNaN(numericValue) THEN numericValue
  ELSE parseMemoryQuantity(quantity)

genericValue(quantity, numericValue) ==
  IF ~IsNaN(numericValue) /\ ~endsWithUnitLetter(quantity) THEN numericValue
  ELSE parseMemoryQuantity(quantity)

parseGenericResource(quantity) ==
  IF quantity = <<>> THEN Zero ELSE genericValue(quantity, ParseFloat(quantity))

\* the parser selected by resource name: "cpu", "memory", anything else
parseByResource(resourceName, quantity) ==
  IF resourceName = "cpu" THEN parseCPUQuantity(quantity)
  ELSE IF resourceName = "memory" THEN parseMemoryQuantity(quantity)
  ELSE parseGenericResource(quantity)

(***************************************************************************)
(* Snapshots (types.ts).  An entry of a watched list is an object whose    *)
(* optional parts may be missing; a missing part is a FALSE has-flag.  A   *)
(* container's absent requests/limits map is the empty map: every reader   *)
(* treats the two alike.                                                   *)
(***************************************************************************)
NoMap == [x \in {} |-> <<>>]

Get(map, key, default) == IF key \in DOMAIN map THEN map[key] ELSE default

\* labels: the entries of metadata.labels, each with its key split after
\* the first '/' and its value
Node(name, uid, capacity) ==
  [isNull |-> FALSE, hasMetadata |-> TRUE, hasUid |-> TRUE, uid |-> uid,
   name |-> name, labels |-> {}, hasStatus |-> TRUE, hasCapacity |-> TRUE,
   capacity |-> capacity]

Label(prefix, rest, value) == [prefix |-> prefix, rest |-> rest, value |-> value]

Container(requests, limits) == [requests |-> requests, limits |-> limits]

Pod(name, uid, namespace, nodeName, phase, containers) ==
  [isNull |-> FALSE, hasMetadata |-> TRUE, hasUid |-> TRUE, uid |-> uid,
   name |-> name, namespace |-> namespace, hasSpec |-> TRUE,
   nodeName |-> nodeName, containers |-> containers, hasStatus |-> TRUE,
   phase |-> phase]

Namespace(name) == [isNull |-> FALSE, hasMetadata |-> TRUE, name |-> name]

(***************************************************************************)
(* Structural validation (utils.ts)                                        *)
(***************************************************************************)
isValidNodeIgnoringUid(node) ==
  /\ ~node.isNull
  /\ node.hasMetadata
  /\ node.hasStatus
  /\ node.hasCapacity

isValidNode(node) ==
  /\ ~node.isNull
  /\ node.hasMetadata
  /\ node.hasUid
  /\ node.hasStatus
  /\ node.hasCapacity

isValidPodIgnoringPhase(pod) ==
  /\ ~pod.isNull
  /\ pod.hasSpec
  /\ pod.hasMetadata
  /\ pod.hasUid
  /\ pod.hasStatus
  /\ Len(pod.containers) > 0

isValidPod(pod) ==
  /\ ~pod.isNull
  /\ pod.hasSpec
  /\ pod.hasMetadata
  /\ pod.hasUid
  /\ pod.hasStatus
  /\ Len(pod.containers) > 0
  /\ pod.phase \notin {"Succeeded", "Failed"}

\* array.filter(pred) for a predicate given as the set of accepted indexes
RECURSIVE FilterIdx(_, _, _)
FilterIdx(seq, keep, i) ==
  IF i > Len(seq) THEN <<>>
  ELSE (IF i \in keep THEN <<seq[i]>> ELSE <<>>) \o FilterIdx(seq, keep, i + 1)

filterValidPods(list) ==
  FilterIdx(list, {i \in 1..Len(list) : isValidPod(list[i])}, 1)

filterValidNodes(list) ==
  FilterIdx(list, {i \in 1..Len(list) : isValidNode(list[i])}, 1)

(***************************************************************************)
(* Pod-level effective values (utils.ts)                                   *)
(***************************************************************************)
\* the forEach loop of the calculatePodEffective* functions: the running
\* totals after the first i containers; a missing or empty entry reads "0"
RECURSIVE podTotals(_, _, _)
podTotals(pod, resourceName, i) ==
  IF i = 0 THEN [requests |-> Zero, limits |-> Zero]
  ELSE LET t == podTotals(pod, resourceName, i - 1)
           container == pod.containers[i]
           given(map) == LET v == Get(map, resourceName, <<>>)
                         IN IF v = <<>> THEN <<"0">> ELSE v
       IN [requests |-> NumAdd(t.requests,
                          parseByResource(resourceName, given(container.requests))),
           limits |-> NumAdd(t.limits,
                          parseByResource(resourceName, given(container.limits)))]

calculatePodEffectiveResourceRequestsOnly(pod, resourceName) ==
  podTotals(pod, resourceName, Len(pod.containers)).requests

calculatePodEffectiveResource(pod, resourceName) ==
  LET t == podTotals(pod, resourceName, Len(pod.containers))
  IN MathMax(t.requests, t.limits)

calculatePodEffectiveCPU(pod) ==
  LET t == podTotals(pod, "cpu", Len(pod.containers))
  IN MathMax(t.requests, t.limits)

calculatePodEffectiveMemory(pod) ==
  LET t == podTotals(pod, "memory", Len(pod.containers))
  IN MathMax(t.requests, t.limits)

(***************************************************************************)
(* Derived structures of SchedulerPage (the useMemo chain)                 *)
(***************************************************************************)
\* validNodes: the valid entries, each with a _key of its uid and its index
\* in the filtered list
validNodesOf(nodesIn) ==
  LET valid == filterValidNodes(nodesIn)
  IN [i \in 1..Len(valid) |-> [node |-> valid[i], key |-> <<valid[i].uid, i - 1>>]] \o <<>>

\* availableResources reads node.status?.capacity of every entry of the
\* snapshot: a null entry throws a TypeError
availableResourcesThrows(nodesIn) ==
  \E i \in 1..Len(nodesIn) : nodesIn[i].isNull

\* the order of the resource selector: cpu, memory, then by localeCompare
ResourceRank == [r \in {"cpu", "memory", "ephemeral-storage", "pods"} |->
                   CASE r = "cpu" -> 0 [] r = "memory" -> 1
                     [] r = "ephemeral-storage" -> 2 [] r = "pods" -> 3]

RECURSIVE SortByRank(_, _)
SortByRank(S, rank) ==
  IF S = {} THEN <<>>
  ELSE LET first == CHOOSE x \in S : \A y \in S : rank[x] <= rank[y]
       IN <<first>> \o SortByRank(S \ {first}, rank)

availableResourcesOf(nodesIn) ==
  SortByRank(UNION {DOMAIN nodesIn[i].capacity :
                      i \in {j \in 1..Len(nodesIn) :
                               nodesIn[j].hasStatus /\ nodesIn[j].hasCapacity}},
             ResourceRank)

\* availableNamespaces reads ns.metadata.name of every entry
availableNamespacesThrows(namespacesIn) ==
  \E i \in 1..Len(namespacesIn) :
     namespacesIn[i].isNull \/ ~namespacesIn[i].hasMetadata

\* localeCompare on the namespace names of the model
NamespaceRank == [n \in {"x", "y"} |-> IF n = "x" THEN 0 ELSE 1]

availableNamespacesOf(namespacesIn) ==
  SortByRank({namespacesIn[i].name : i \in 1..Len(namespacesIn)}, NamespaceRank)

\* filteredPods reads pod.metadata.namespace of every entry, but only when
\* some namespace is selected
filteredPodsThrows(podsIn, selected) ==
  /\ selected # {}
  /\ \E i \in 1..Len(podsIn) : podsIn[i].isNull \/ ~podsIn[i].hasMetadata

\* the filter without the case of the empty selection
filteredPodsOfSelectedOnly(podsIn, selected) ==
  FilterIdx(podsIn, {i \in 1..Len(podsIn) : podsIn[i].namespace \in selected}, 1)

filteredPodsOf(podsIn, selected) ==
  IF selected = {} THEN podsIn
  ELSE FilterIdx(podsIn,
                 {i \in 1..Len(podsIn) : podsIn[i].namespace \in selected}, 1)

\* the body of the Object.keys(...).forEach of nodeResourceUsage for one
\* side ("requests" or "limits") of one container: every non-empty value is
\* parsed by resource name and added to the cell (resourceName, nodeName)
addQuantitiesOverwriting(usage, side, nodeName, map) ==
  LET keys == {r \in DOMAIN map : map[r] # <<>>}
      entry(r) == Get(usage, r, [requests |-> NoMap, limits |-> NoMap])
      bump(cells, r) ==
        [n \in DOMAIN cells \cup {nodeName} |->
           IF n = nodeName THEN parseByResource(r, map[r]) ELSE cells[n]]
  IN [r \in DOMAIN usage \cup keys |->
        IF r \notin keys THEN usage[r]
        ELSE IF side = "requests"
          THEN [entry(r) EXCEPT !.requests = bump(@, r)]
        ELSE [entry(r) EXCEPT !.limits = bump(@, r)]]

addQuantities(usage, side, nodeName, map) ==
  LET keys == {r \in DOMAIN map : map[r] # <<>>}
      entry(r) == Get(usage, r, [requests |-> NoMap, limits |-> NoMap])
      bump(cells, r) ==
        [n \in DOMAIN cells \cup {nodeName} |->
           IF n = nodeName
             THEN NumAdd(OrZero(Get(cells, nodeName, Zero)),
                         parseByResource(r, map[r]))
           ELSE cells[n]]
  IN [r \in DOMAIN usage \cup keys |->
        IF r \notin keys THEN usage[r]
        ELSE IF side = "requests"
          THEN [entry(r) EXCEPT !.requests = bump(@, r)]
        ELSE [entry(r) EXCEPT !.limits = bump(@, r)]]

\* pod.spec.containers.forEach: the usage after the first i containers
RECURSIVE addContainers(_, _, _)
addContainers(usage, pod, i) ==
  IF i = 0 THEN usage
  ELSE LET u == addContainers(usage, pod, i - 1)
           container == pod.containers[i]
       IN addQuantities(addQuantities(u, "requests", pod.nodeName,
                                      container.requests),
                        "limits", pod.nodeName, container.limits)

\* filteredPods.filter(isValidPod).forEach: the usage after the first i
\* entries of the list; a pod with no node name is skipped
RECURSIVE usageAfter(_, _)
usageAfter(list, i) ==
  IF i = 0 THEN NoMap
  ELSE LET u == usageAfter(list, i - 1)
           pod == list[i]
       IN IF isValidPod(pod) /\ pod.nodeName # ""
            THEN addContainers(u, pod, Len(pod.containers))
          ELSE u

nodeResourceUsageOf(filtered) == usageAfter(filtered, Len(filtered))

\* podsByNode that lists the pods without a node name under the name ""
podsByNodeOfUnplacedToo(filtered) ==
  LET placed == {i \in 1..Len(filtered) : isValidPod(filtered[i])}
  IN [n \in {filtered[i].nodeName : i \in placed} |->
        FilterIdx(filtered, {i \in placed : filtered[i].nodeName = n}, 1)] @@ NoMap

\* podsByNode: the valid pods with a node name, grouped by it, in list order
podsByNodeOf(filtered) ==
  LET placed == {i \in 1..Len(filtered) :
                   isValidPod(filtered[i]) /\ filtered[i].nodeName # ""}
  IN [n \in {filtered[i].nodeName : i \in placed} |->
        FilterIdx(filtered, {i \in placed : filtered[i].nodeName = n}, 1)] @@ NoMap

\* displayNodes without the filter of hideEmptyNodes
displayNodesOfUnfiltered(validNodesIn, hide, podsByNodeIn) == validNodesIn

\* displayNodes: validNodes, or with hideEmptyNodes those of them that have
\* a non-empty pod list
displayNodesOf(validNodesIn, hide, podsByNodeIn) ==
  IF ~hide THEN validNodesIn
  ELSE FilterIdx(validNodesIn,
                 {i \in 1..Len(validNodesIn) :
                    /\ validNodesIn[i].node.name \in DOMAIN podsByNodeIn
                    /\ Len(podsByNodeIn[validNodesIn[i].node.name]) > 0}, 1)

\* getNodeRoles (utils.ts): the role names of the labels
\* node-role.kubernetes.io/<role> with value '' or 'true', sorted
RolePrefix == "node-role.kubernetes.io/"

\* the order of Array.prototype.sort() and of localeCompare on the role
\* names and role keys of the model
RoleRank == [r \in {"control-plane", "control-plane,master", "infra",
                     "infra,worker", "master", "no-role", "worker"} |->
               CASE r = "control-plane" -> 0 [] r = "control-plane,master" -> 1
                 [] r = "infra" -> 2 [] r = "infra,worker" -> 3
                 [] r = "master" -> 4 [] r = "no-role" -> 5 [] r = "worker" -> 6]

getNodeRoles(node) ==
  LET labels == IF node.hasMetadata THEN node.labels ELSE {}
  IN SortByRank({l.rest : l \in {x \in labels :
                                   /\ x.prefix = RolePrefix
                                   /\ x.rest # ""
                                   /\ x.value \in {"", "true"}}}, RoleRank)

\* roles.sort().join(',') or 'no-role'
RECURSIVE JoinRoles(_)
JoinRoles(roles) ==
  IF Len(roles) = 1 THEN roles[1]
  ELSE roles[1] \o "," \o JoinRoles(Tail(roles))

roleKeyOf(roles) == IF Len(roles) > 0 THEN JoinRoles(roles) ELSE "no-role"

\* the comparator of sortedGroups: groups with master or control-plane
\* first, then the group of the workers, then by localeCompare of the keys
groupClass(roles) ==
  IF \E i \in 1..Len(roles) : roles[i] \in {"master", "control-plane"} THEN 0
  ELSE IF roles = <<"worker">> THEN 1
  ELSE 2

\* the comparator without its two classes
groupRankByKey(roles) == RoleRank[roleKeyOf(roles)]

groupRank(roles) == 10 * groupClass(roles) + RoleRank[roleKeyOf(roles)]

\* nodesByRole: the entries [roleKey, {roles, nodes}], sorted
nodesByRoleOf(displayNodesIn) ==
  LET rolesAt == [i \in 1..Len(displayNodesIn) |->
                    getNodeRoles(displayNodesIn[i].node)]
      groups == {rolesAt[i] : i \in 1..Len(displayNodesIn)}
      sortedGroups == SortByRank(groups, [g \in groups |-> groupRank(g)])
  IN [x \in 1..Len(sortedGroups) |->
        <<roleKeyOf(sortedGroups[x]),
          [roles |-> sortedGroups[x],
           nodes |-> FilterIdx(displayNodesIn,
                               {i \in 1..Len(displayNodesIn) :
                                  rolesAt[i] = sortedGroups[x]}, 1)]>>] \o <<>>

(***************************************************************************)
(* The memo cells of SchedulerPage                                         *)
(***************************************************************************)
\* useMemo(factory, deps): the cell keeps its value while every dependency
\* is the one of the previous render pass (a snapshot or a set that is equal
\* but newly allocated makes React recompute, to the same value)
useMemo(cell, depsBefore, deps, value) ==
  IF depsBefore = deps THEN cell ELSE value

\* the dependency arrays
validNodesDeps(nodesIn) == <<nodesIn>>
availableResourcesDeps(nodesIn) == <<nodesIn>>
availableNamespacesDeps(namespacesIn) == <<namespacesIn>>
filteredPodsDeps(podsIn, selected) == <<podsIn, selected>>
nodeResourceUsageDeps(filtered) == <<filtered>>
podsByNodeDeps(filtered) == <<filtered>>
displayNodesDepsWithoutPods(validNodesIn, hide, podsByNodeIn) ==
  <<validNodesIn, hide>>
displayNodesDeps(validNodesIn, hide, podsByNodeIn) ==
  <<validNodesIn, hide, podsByNodeIn>>
nodesByRoleDeps(displayNodesIn) == <<displayNodesIn>>

\* the cells after the first render pass
mountedCells(n, p, ns, sel, hide) ==
  LET vn == validNodesOf(n)
      fp == filteredPodsOf(p, sel)
      pbn == podsByNodeOf(fp)
      dn == displayNodesOf(vn, hide, pbn)
  IN [validNodes |-> vn,
      availableResources |-> availableResourcesOf(n),
      availableNamespaces |-> availableNamespacesOf(ns),
      filteredPods |-> fp,
      nodeResourceUsage |-> nodeResourceUsageOf(fp),
      podsByNode |-> pbn,
      displayNodes |-> dn,
      nodesByRole |-> nodesByRoleOf(dn)]

\* the cells after a later render pass, in the order of the hooks; before
\* holds the cells and the inputs of the previous pass
renderedRoles(before, vn, ar, an, fp, usage, pbn, dn) ==
  [validNodes |-> vn, availableResources |-> ar, availableNamespaces |-> an,
   filteredPods |-> fp, nodeResourceUsage |-> usage, podsByNode |-> pbn,
   displayNodes |-> dn,
   nodesByRole |-> useMemo(before.cells.nodesByRole,
                           nodesByRoleDeps(before.cells.displayNodes),
                           nodesByRoleDeps(dn), nodesByRoleOf(dn))]

renderedDisplay(before, hide, vn, ar, an, fp, usage, pbn) ==
  renderedRoles(before, vn, ar, an, fp, usage, pbn,
    useMemo(before.cells.displayNodes,
            displayNodesDeps(before.cells.validNodes, before.hide,
                             before.cells.podsByNode),
            displayNodesDeps(vn, hide, pbn), displayNodesOf(vn, hide, pbn)))

renderedPods(before, hide, vn, ar, an, fp) ==
  renderedDisplay(before, hide, vn, ar, an, fp,
    useMemo(before.cells.nodeResourceUsage,
            nodeResourceUsageDeps(before.cells.filteredPods),
            nodeResourceUsageDeps(fp), nodeResourceUsageOf(fp)),
    useMemo(before.cells.podsByNode,
            podsByNodeDeps(before.cells.filteredPods),
            podsByNodeDeps(fp), podsByNodeOf(fp)))

renderedCells(before, n, p, ns, sel, hide) ==
  renderedPods(before, hide,
    useMemo(before.cells.validNodes, validNodesDeps(before.nodes),
            validNodesDeps(n), validNodesOf(n)),
    useMemo(before.cells.availableResources,
            availableResourcesDeps(before.nodes),
            availableResourcesDeps(n), availableResourcesOf(n)),
    useMemo(before.cells.availableNamespaces,
            availableNamespacesDeps(before.namespaces),
            availableNamespacesDeps(ns), availableNamespacesOf(ns)),
    useMemo(before.cells.filteredPods,
            filteredPodsDeps(before.pods, before.selectedNamespaces),
            filteredPodsDeps(p, sel), filteredPodsOf(p, sel)))

(***************************************************************************)
(* SchedulingPressure (SchedulingComponents.tsx)                           *)
(***************************************************************************)
unscheduledPodsOf(podsIn) ==
  FilterIdx(podsIn,
            {i \in 1..Len(podsIn) : /\ isValidPod(podsIn[i])
                                    /\ podsIn[i].phase = "Pending"
                                    /\ podsIn[i].nodeName = ""}, 1)

(***************************************************************************)
(* ClusterOverview.clusterStats (ClusterOverview.tsx)                      *)
(***************************************************************************)
nodeUsedMax(usage, resourceName, nodeName) ==
  IF resourceName \notin DOMAIN usage THEN Zero
  ELSE MathMax(OrZero(Get(usage[resourceName].requests, nodeName, Zero)),
               OrZero(Get(usage[resourceName].limits, nodeName, Zero)))

\* the usage of one node for one resource: requests first, fallback to
\* limits when the requests total is 0 (or missing)
nodeUsed(usage, resourceName, nodeName) ==
  IF resourceName \notin DOMAIN usage THEN Zero
  ELSE LET requested == OrZero(Get(usage[resourceName].requests, nodeName, Zero))
       IN IF requested = Zero
            THEN OrZero(Get(usage[resourceName].limits, nodeName, Zero))
          ELSE requested

\* total > 0 ? Math.min((used / total) * 100, 100) : 0
percentageOf(used, total) ==
  IF NumGt(total, Zero)
    THEN MathMin(NumMulInt(NumDiv(used, total), 100), FromInt(100))
  ELSE Zero

\* nodePercentages.push({nodeName, percentage, used, total})
nodePercentageEntry(nodeName, used, nodeTotal) ==
  [nodeName |-> nodeName, percentage |-> percentageOf(used, nodeTotal),
   used |-> used, total |-> nodeTotal]

\* capacity[resourceName] || '0'
capacityValueOf(node, resourceName) ==
  IF Get(node.capacity, resourceName, <<>>) = <<>> THEN <<"0">>
  ELSE node.capacity[resourceName]

\* the body of validNodesList.forEach for one node
nodeEntryOf(node, usage, resourceName) ==
  nodePercentageEntry(node.name, nodeUsed(usage, resourceName, node.name),
                      parseByResource(resourceName,
                                      capacityValueOf(node, resourceName)))

\* (\o <<>> and @@ NoMap leave a value as it is; they make TLC build it once)
nodePercentagesOf(validNodesList, usage, resourceName) ==
  [i \in 1..Len(validNodesList) |->
     nodeEntryOf(validNodesList[i], usage, resourceName)] \o <<>>

\* total += nodeTotal, used += nodeUsed over the entries lo..hi (the sum is
\* taken by halves: with exact numbers the order of the additions is
\* immaterial)
RECURSIVE sumOfField(_, _, _, _)
sumOfField(entries, field, lo, hi) ==
  IF lo > hi THEN Zero
  ELSE IF lo = hi THEN entries[lo][field]
  ELSE NumAdd(sumOfField(entries, field, lo, (lo + hi) \div 2),
              sumOfField(entries, field, (lo + hi) \div 2 + 1, hi))

\* for each entry its place in the stable descending order: after the
\* entries of larger percentage and the earlier entries of equal percentage
placesOf(nodePercentages) ==
  {<<1 + Cardinality({j \in 1..Len(nodePercentages) :
                        \/ NumLt(nodePercentages[i].percentage,
                                 nodePercentages[j].percentage)
                        \/ /\ j < i
                           /\ nodePercentages[j].percentage
                                = nodePercentages[i].percentage}), i>> :
     i \in 1..Len(nodePercentages)}

inPlaces(nodePercentages, places) ==
  [x \in 1..Len(nodePercentages) |->
     nodePercentages[(CHOOSE place \in places : place[1] = x)[2]]] \o <<>>

\* the array left in the order of the node list
sortedPercentagesInListOrder(nodePercentages) == nodePercentages

\* [...nodePercentages].sort((a, b) => b.percentage - a.percentage): the
\* sort is stable (the percentages are numbers, never NaN, in the snapshots
\* of this model)
sortedPercentagesOf(nodePercentages) ==
  inPlaces(nodePercentages, placesOf(nodePercentages))

null == [isNull |-> TRUE]

\* Math.ceil(x * (1 - p / 100)) in double arithmetic, for an integer x in
\* 0..20000 and p in {99, 90, 50, 10}.  1 - 99 / 100 is the double
\* 0.010000000000000009, so that for a positive multiple x of 100 the product
\* is above the integer x / 100 (100 * 0.010000000000000009 is
\* 1.0000000000000009) and the ceiling is one more; in every other case of
\* this range the double result is the exact ceiling.
CeilOfShare(x, p) ==
  (x * (100 - p) + 99) \div 100
    + (IF p = 99 /\ x > 0 /\ x % 100 = 0 THEN 1 ELSE 0)

\* sortedPercentages[index] || null, index counted from 0
entryAt(sortedPercentages, index) ==
  IF index + 1 \in 1..Len(sortedPercentages)
    THEN sortedPercentages[index + 1]
  ELSE null

getPercentile(sortedPercentages, p) ==
  IF Len(sortedPercentages) = 0 THEN null
  ELSE entryAt(sortedPercentages, CeilOfShare(Len(sortedPercentages) - 1, p))

percentilesOf(sortedPercentages) ==
  [p100 |-> entryAt(sortedPercentages, 0),
   p99 |-> getPercentile(sortedPercentages, 99),
   p90 |-> getPercentile(sortedPercentages, 90),
   p50 |-> getPercentile(sortedPercentages, 50),
   p10 |-> getPercentile(sortedPercentages, 10),
   p0 |-> entryAt(sortedPercentages, Len(sortedPercentages) - 1)]

\* the keys of the distribution, in the order of the comparison chain
Ranges == <<"0-10", "10-20", "20-30", "30-40", "40-50", "50-60", "60-70",
            "70-80", "80-90", "90-100">>

\* the numbers 10, 20, ..., 90 the chain compares with
Thresholds == <<FromInt(10), FromInt(20), FromInt(30), FromInt(40),
                FromInt(50), FromInt(60), FromInt(70), FromInt(80),
                FromInt(90)>>

\* the key a chain with <= in the place of < would give
rangeOfUpperInclusive(pct) ==
  LET reached == {x \in 1..9 : ~NumLt(Thresholds[x], pct)}
  IN IF reached = {} THEN Ranges[10]
     ELSE Ranges[CHOOSE x \in reached : \A y \in reached : x <= y]

\* the key the chain if (pct < 10) ... else if (pct < 90) ... else gives
rangeOf(pct) ==
  IF NumLt(pct, Thresholds[1]) THEN Ranges[1]
  ELSE IF NumLt(pct, Thresholds[2]) THEN Ranges[2]
  ELSE IF NumLt(pct, Thresholds[3]) THEN Ranges[3]
  ELSE IF NumLt(pct, Thresholds[4]) THEN Ranges[4]
  ELSE IF NumLt(pct, Thresholds[5]) THEN Ranges[5]
  ELSE IF NumLt(pct, Thresholds[6]) THEN Ranges[6]
  ELSE IF NumLt(pct, Thresholds[7]) THEN Ranges[7]
  ELSE IF NumLt(pct, Thresholds[8]) THEN Ranges[8]
  ELSE IF NumLt(pct, Thresholds[9]) THEN Ranges[9]
  ELSE Ranges[10]

\* the counts, given for each entry i the pair <<i, its key>>
countsOf(keyed) ==
  [range \in {Ranges[x] : x \in 1..10} |->
     Cardinality({pair \in keyed : pair[2] = range})] @@ NoMap

distributionOf(nodePercentages) ==
  countsOf({<<i, rangeOf(nodePercentages[i].percentage)>> :
              i \in 1..Len(nodePercentages)})

\* resourceStats[resourceName] = {total, used, percentage, nodePercentages,
\* percentiles, distribution}
resourceStatsFrom(nodePercentages, total, used, sortedPercentages) ==
  [total |-> total, used |-> used,
   percentage |-> percentageOf(used, total),
   nodePercentages |-> nodePercentages,
   percentiles |-> percentilesOf(sortedPercentages),
   distribution |-> distributionOf(nodePercentages)]

resourceStatsOver(nodePercentages) ==
  resourceStatsFrom(nodePercentages,
                    sumOfField(nodePercentages, "total", 1, Len(nodePercentages)),
                    sumOfField(nodePercentages, "used", 1, Len(nodePercentages)),
                    sortedPercentagesOf(nodePercentages))

resourceStatsOf(validNodesList, usage, resourceName) ==
  resourceStatsOver(nodePercentagesOf(validNodesList, usage, resourceName))

clusterStatsOf(nodesProp, podsProp, usage, selected) ==
  LET validNodesList == filterValidNodes(nodesProp)
      validPodsList == filterValidPods(podsProp)
  IN [totalNodes |-> Len(validNodesList),
      totalPods |-> Len(validPodsList),
      runningPods |-> Cardinality({i \in 1..Len(validPodsList) :
                                     validPodsList[i].phase = "Running"}),
      resourceStats |-> [r \in selected |->
                           resourceStatsOf(validNodesList, usage, r)] @@ NoMap,
      unscheduledPods |-> Cardinality({i \in 1..Len(validPodsList) :
                                         /\ validPodsList[i].phase = "Pending"
                                         /\ validPodsList[i].nodeName = ""})]

\* the props ClusterOverview is rendered with
ClusterOverviewProps(nodesIn, filtered, usage, selected) ==
  [nodes |-> nodesIn, pods |-> filtered, nodeResourceUsage |-> usage,
   selectedResources |-> selected]

(***************************************************************************)
(* Texts (condition messages and reasons) are strings; the text helpers    *)
(* read them character by character.  The messages of the model hold no    *)
(* line terminator, so '.' of a regular expression matches every           *)
(* character of them.                                                      *)
(***************************************************************************)
CharAt(s, i) == SubSeq(s, i, i)

UpperCase == "ABCDEFGHIJKLMNOPQRSTUVWXYZ"
LowerCase == "abcdefghijklmnopqrstuvwxyz"

\* the character as the flag i of a regular expression compares it
ToLower(c) ==
  IF \E k \in 1..Len(UpperCase) : CharAt(UpperCase, k) = c
    THEN CharAt(LowerCase, CHOOSE k \in 1..Len(UpperCase) : CharAt(UpperCase, k) = c)
  ELSE c

\* \w of a regular expression
WordChar(c) ==
  \/ c \in Digit
  \/ c = "_"
  \/ \E k \in 1..Len(LowerCase) : CharAt(LowerCase, k) = ToLower(c)

\* the literal lit (given in lower case) stands at index i of s, whatever
\* the case of the letters of s
MatchesAt(s, i, lit) ==
  /\ i >= 1
  /\ i + Len(lit) - 1 <= Len(s)
  /\ \A k \in 1..Len(lit) : ToLower(CharAt(s, i + k - 1)) = CharAt(lit, k)

\* the first index at or after i whose character is not in S (is in S)
RECURSIVE SkipChars(_, _, _)
SkipChars(s, i, S) ==
  IF i <= Len(s) /\ CharAt(s, i) \in S THEN SkipChars(s, i + 1, S) ELSE i

RECURSIVE SkipWord(_, _)
SkipWord(s, i) ==
  IF i <= Len(s) /\ WordChar(CharAt(s, i)) THEN SkipWord(s, i + 1) ELSE i

RECURSIVE SkipUntil(_, _, _)
SkipUntil(s, i, S) ==
  IF i <= Len(s) /\ CharAt(s, i) \notin S THEN SkipUntil(s, i + 1, S) ELSE i

\* lit1 \s+ lit2 \s+ ... litN \s+ matched at index i: the index after the
\* match, 0 when there is none
RECURSIVE afterWords(_, _, _)
afterWords(s, i, words) ==
  IF words = <<>> THEN i
  ELSE IF ~MatchesAt(s, i, Head(words)) THEN 0
  ELSE IF SkipChars(s, i + Len(Head(words)), WhiteSpace) = i + Len(Head(words))
    THEN 0
  ELSE afterWords(s, SkipChars(s, i + Len(Head(words)), WhiteSpace), Tail(words))

\* String.prototype.trim
RECURSIVE TrimEnd(_)
TrimEnd(s) ==
  IF Len(s) > 0 /\ CharAt(s, Len(s)) \in WhiteSpace
    THEN TrimEnd(SubSeq(s, 1, Len(s) - 1))
  ELSE s

Trim(s) == TrimEnd(SubSeq(s, SkipChars(s, 1, WhiteSpace), Len(s)))

\* the least element of a set of indexes, 0 for the empty set
FirstOf(S) == IF S = {} THEN 0 ELSE CHOOSE i \in S : \A j \in S : i <= j

(***************************************************************************)
(* The scheduling-failure classifier (utils.ts)                            *)
(***************************************************************************)
Text(s) == [isNull |-> FALSE, text |-> s]
NoText == [isNull |-> TRUE]

NoMatch == [found |-> FALSE]

\* message.replace(/^\d+\/\d+\s+nodes\s+are\s+available:\s*/i, '')
availablePrefixEnd(s, d1, d2) ==
  IF d1 = 1 \/ CharAt(s, d1) # "/" \/ d2 = d1 + 1 THEN 0
  ELSE IF SkipChars(s, d2, WhiteSpace) = d2 THEN 0
  ELSE IF ~MatchesAt(s, afterWords(s, SkipChars(s, d2, WhiteSpace),
                                   <<"nodes", "are">>), "available:") THEN 0
  ELSE SkipChars(s, afterWords(s, SkipChars(s, d2, WhiteSpace),
                               <<"nodes", "are">>) + Len("available:"),
                 WhiteSpace)

withoutAvailablePrefixAt(s, end) ==
  IF end = 0 THEN s ELSE SubSeq(s, end, Len(s))

withoutAvailablePrefix(s) ==
  withoutAvailablePrefixAt(s,
    availablePrefixEnd(s, SkipChars(s, 1, Digit),
                       SkipChars(s, SkipChars(s, 1, Digit) + 1, Digit)))

\* cleaned.split(/preemption:/i)[0].trim()
beforePreemptionAt(s, at) ==
  Trim(IF at = 0 THEN s ELSE SubSeq(s, 1, at - 1))

beforePreemption(s) ==
  beforePreemptionAt(s, FirstOf({i \in 1..Len(s) : MatchesAt(s, i, "preemption:")}))

\* cleaned.replace(/\.+$/, '').trim()
RECURSIVE withoutTrailingPeriods(_)
withoutTrailingPeriods(s) ==
  IF Len(s) > 0 /\ CharAt(s, Len(s)) = "."
    THEN withoutTrailingPeriods(SubSeq(s, 1, Len(s) - 1))
  ELSE s

\* /persistentvolumeclaim\s+"([^"]+)"\s+(.+?)(?:\.|$)/i at index p: open is
\* the index of the opening quote, close of the closing one, w the index
\* after the white space that follows it
pvcGroups(s, open, close, w) ==
  IF open = 0 \/ CharAt(s, open) # "\"" THEN NoMatch
  ELSE IF close > Len(s) \/ close = open + 1 \/ w = close + 1 THEN NoMatch
  ELSE IF w > Len(s) /\ w = close + 2 THEN NoMatch
  ELSE [found |-> TRUE,
        name |-> SubSeq(s, open + 1, close - 1),
        first |-> IF w > Len(s) THEN w - 1 ELSE w]

pvcMatchAt(s, p) ==
  pvcGroups(s, afterWords(s, p, <<"persistentvolumeclaim">>),
            SkipUntil(s, afterWords(s, p, <<"persistentvolumeclaim">>) + 1, {"\""}),
            SkipChars(s, SkipUntil(s, afterWords(s, p, <<"persistentvolumeclaim">>) + 1,
                                   {"\""}) + 1, WhiteSpace))

pvcText(s, m) ==
  "PVC \"" \o m.name \o "\" "
    \o SubSeq(s, m.first, SkipUntil(s, m.first + 1, {"."}) - 1)

\* /node\(s\)\s+had\s+taint\s+{([^}]+)}/i at index p: open is the index of
\* the brace
taintGroups(s, open, close) ==
  IF open = 0 \/ CharAt(s, open) # "{" THEN NoMatch
  ELSE IF close > Len(s) \/ close = open + 1 THEN NoMatch
  ELSE [found |-> TRUE, taint |-> SubSeq(s, open + 1, close - 1)]

taintMatchAt(s, p) ==
  taintGroups(s, afterWords(s, p, <<"node(s)", "had", "taint">>),
              SkipUntil(s, afterWords(s, p, <<"node(s)", "had", "taint">>) + 1, {"}"}))

\* /(\d+)\s+(Insufficient\s+\w+)/i at index p: d is the index after the
\* digits, w after the white space, a after 'Insufficient' and its white
\* space
resourceGroups(s, p, d, w, a) ==
  IF d = p \/ w = d \/ a = 0 \/ SkipWord(s, a) = a THEN NoMatch
  ELSE [found |-> TRUE, count |-> SubSeq(s, p, d - 1),
        what |-> SubSeq(s, w, SkipWord(s, a) - 1)]

resourceMatchAt(s, p) ==
  resourceGroups(s, p, SkipChars(s, p, Digit),
                 SkipChars(s, SkipChars(s, p, Digit), WhiteSpace),
                 afterWords(s, SkipChars(s, SkipChars(s, p, Digit), WhiteSpace),
                            <<"insufficient">>))

\* /(node\(s\)\s+didn't\s+match\s+[^.]+)/i at index p: a is the index after
\* the white space that follows 'match'; when a period or the end follows
\* it, [^.]+ takes the last character of that white space if the white
\* space has two
affinityGroups(s, p, a) ==
  IF a = 0 THEN NoMatch
  ELSE IF a <= Len(s) /\ CharAt(s, a) # "."
    THEN [found |-> TRUE, whole |-> SubSeq(s, p, SkipUntil(s, a, {"."}) - 1)]
  ELSE IF CharAt(s, a - 2) \in WhiteSpace
    THEN [found |-> TRUE, whole |-> SubSeq(s, p, a - 1)]
  ELSE NoMatch

affinityMatchAt(s, p) ==
  affinityGroups(s, p, afterWords(s, p, <<"node(s)", "didn't", "match">>))

\* the part after the last colon, when the colon is neither the first nor
\* the last character and something but white space follows it
afterLastColon(s, colon) ==
  IF colon > 1 /\ colon < Len(s) /\ Len(Trim(SubSeq(s, colon + 1, Len(s)))) > 0
    THEN Trim(SubSeq(s, colon + 1, Len(s)))
  ELSE s

MaxReasonLength == 100

truncated(s) ==
  IF Len(s) > MaxReasonLength THEN SubSeq(s, 1, MaxReasonLength - 3) \o "..."
  ELSE s

orUnknown(s) == IF s = "" THEN "Unknown reason" ELSE s

\* the extractors in the order of the code; at is the index of the leftmost
\* match of the extractor in turn, 0 when it has none
fallThrough(s) ==
  orUnknown(truncated(afterLastColon(s,
    FirstOf({i \in 1..Len(s) : CharAt(s, i) = ":" /\
               \A j \in (i + 1)..Len(s) : CharAt(s, j) # ":"}))))

fromAffinity(s, at) ==
  IF at # 0 THEN affinityMatchAt(s, at).whole ELSE fallThrough(s)

fromResource(s, at) ==
  IF at # 0
    THEN resourceMatchAt(s, at).count \o " " \o resourceMatchAt(s, at).what
  ELSE fromAffinity(s, FirstOf({p \in 1..Len(s) : affinityMatchAt(s, p).found}))

fromTaint(s, at) ==
  IF at # 0 THEN "Taint: " \o taintMatchAt(s, at).taint
  ELSE fromResource(s, FirstOf({p \in 1..Len(s) : resourceMatchAt(s, p).found}))

fromPvc(s, at) ==
  IF at # 0 THEN pvcText(s, pvcMatchAt(s, at))
  ELSE fromTaint(s, FirstOf({p \in 1..Len(s) : taintMatchAt(s, p).found}))

extractReason(s) ==
  fromPvc(s, FirstOf({p \in 1..Len(s) : pvcMatchAt(s, p).found}))

parseSchedulingFailureMessage(message) ==
  IF message = "" THEN "Unknown reason"
  ELSE extractReason(
         Trim(withoutTrailingPeriods(beforePreemption(withoutAvailablePrefix(message)))))

\* a condition of the pod's status; a missing message or reason is ""
Condition(type, status, reason, message) ==
  [type |-> type, status |-> status, reason |-> reason, message |-> message]

\* conditions.find(c => c.type === 'PodScheduled' && c.status === 'False')
podScheduledFalse(conditions) ==
  FirstOf({i \in 1..Len(conditions) :
             /\ conditions[i].type = "PodScheduled"
             /\ conditions[i].status = "False"})

\* the reason preferred to the message
reasonOfConditionReasonFirst(condition) ==
  IF condition.reason # "" THEN Text(condition.reason)
  ELSE IF condition.message # ""
    THEN Text(parseSchedulingFailureMessage(condition.message))
  ELSE Text("Unknown reason")

reasonOfCondition(condition) ==
  IF condition.message # ""
    THEN Text(parseSchedulingFailureMessage(condition.message))
  ELSE Text(IF condition.reason # "" THEN condition.reason ELSE "Unknown reason")

reasonAt(conditions, at) ==
  IF at = 0 THEN NoText ELSE reasonOfCondition(conditions[at])

getSchedulingFailureReason(pod) ==
  IF ~pod.hasStatus \/ ~pod.hasConditions THEN NoText
  ELSE reasonAt(pod.conditions, podScheduledFalse(pod.conditions))

(***************************************************************************)
(* The failure table of ClusterOverview and the boxes of the unscheduled   *)
(* pods                                                                    *)
(***************************************************************************)
\* status.conditions of a pod: absent, or a list
withConditions(pod, hasConditions, conditions) ==
  pod @@ [hasConditions |-> hasConditions, conditions |-> conditions]

\* SchedulingPressure renders an UnschedulablePodBox, which reads the
\* reason, for each of its unscheduled pods
classifiedPodsOf(podsIn) ==
  [i \in 1..Len(unscheduledPodsOf(podsIn)) |->
     [pod |-> unscheduledPodsOf(podsIn)[i],
      reason |-> getSchedulingFailureReason(unscheduledPodsOf(podsIn)[i])]] \o <<>>

\* getSchedulingFailureReason(pod) || 'Unknown reason'
reasonKeyOf(reason) ==
  IF reason.isNull THEN "Unknown reason"
  ELSE IF reason.text = "" THEN "Unknown reason"
  ELSE reason.text

\* a property key that is an array index (a canonical numeric string below
\* 2^32 - 1): Object.entries lists these first, in ascending order
MaxArrayIndex == "4294967294"

RECURSIVE DigitsLess(_, _)
DigitsLess(a, b) ==
  IF Len(a) # Len(b) THEN Len(a) < Len(b)
  ELSE IF a = "" THEN FALSE
  ELSE IF Head(a) # Head(b) THEN DigitVal(Head(a)) < DigitVal(Head(b))
  ELSE DigitsLess(Tail(a), Tail(b))

isArrayIndex(key) ==
  /\ key # ""
  /\ SkipChars(key, 1, Digit) = Len(key) + 1
  /\ Head(key) = "0" => key = "0"
  /\ ~DigitsLess(MaxArrayIndex, key)

\* the keys of groups in the order of Object.entries; keys[i] is the key of
\* the i-th counted pod
keyBefore(keys, i, j) ==
  IF isArrayIndex(keys[i]) /\ isArrayIndex(keys[j]) THEN DigitsLess(keys[i], keys[j])
  ELSE IF isArrayIndex(keys[i]) # isArrayIndex(keys[j]) THEN isArrayIndex(keys[i])
  ELSE i < j

entriesOrder(keys, firsts) ==
  SortByRank(firsts, [i \in firsts |->
                        Cardinality({j \in firsts : keyBefore(keys, j, i)})])

\* the entries sorted by count, lowest first
sortedByCountAscending(entries) ==
  [x \in 1..Len(entries) |->
     entries[CHOOSE i \in 1..Len(entries) :
               Cardinality({j \in 1..Len(entries) :
                              \/ entries[j][2] < entries[i][2]
                              \/ entries[j][2] = entries[i][2] /\ j < i}) = x - 1]] \o <<>>

\* entries.sort((a, b) => b[1] - a[1]): by count, highest first, entries of
\* equal count in the order they had
sortedByCount(entries) ==
  [x \in 1..Len(entries) |->
     entries[CHOOSE i \in 1..Len(entries) :
               Cardinality({j \in 1..Len(entries) :
                              \/ entries[j][2] > entries[i][2]
                              \/ entries[j][2] = entries[i][2] /\ j < i}) = x - 1]] \o <<>>

groupEntries(keys, order) ==
  [x \in 1..Len(order) |->
     <<keys[order[x]],
       Cardinality({j \in 1..Len(keys) : keys[j] = keys[order[x]]})>>] \o <<>>

groupedFailures(keys) ==
  sortedByCount(groupEntries(keys,
    entriesOrder(keys, {i \in 1..Len(keys) : \A j \in 1..(i - 1) : keys[j] # keys[i]})))

failureKeysOf(list) ==
  [i \in 1..Len(list) |-> reasonKeyOf(getSchedulingFailureReason(list[i]))] \o <<>>

\* schedulingFailures: the entries [reason, count] of the unscheduled pods
schedulingFailuresOf(podsIn) ==
  groupedFailures(failureKeysOf(
    FilterIdx(podsIn, {i \in 1..Len(podsIn) : /\ isValidPod(podsIn[i])
                                             /\ podsIn[i].phase = "Pending"
                                             /\ podsIn[i].nodeName = ""}, 1)))

(***************************************************************************)
(* The formatters (utils.ts).  The numbers they are applied to in the      *)
(* model are doubles n * 2^e with an odd n below 2^18, at least 2^-8 and   *)
(* below 10^21 in magnitude, so that the decimal digits below are the      *)
(* digits JavaScript prints.                                               *)
(***************************************************************************)
DigitChar(i) == CharAt("0123456789", i + 1)

\* the decimal digits of a natural number
RECURSIVE IntDigits(_)
IntDigits(i) ==
  IF i < 10 THEN DigitChar(i) ELSE IntDigits(i \div 10) \o DigitChar(i % 10)

\* the decimal digits of m times the number of the digits s, carry added
RECURSIVE TimesDigits(_, _, _)
TimesDigits(s, m, carry) ==
  IF s = "" THEN (IF carry = 0 THEN "" ELSE IntDigits(carry))
  ELSE TimesDigits(SubSeq(s, 1, Len(s) - 1), m,
                   (m * DigitVal(CharAt(s, Len(s))) + carry) \div 10)
         \o DigitChar((m * DigitVal(CharAt(s, Len(s))) + carry) % 10)

\* the decimal digits of n * 2^e for the digits s of a natural n > 0 and a
\* natural e
RECURSIVE ScaledDigits(_, _)
ScaledDigits(s, e) ==
  IF e = 0 THEN s
  ELSE IF e >= 10 THEN ScaledDigits(TimesDigits(s, 1024, 0) \o "", e - 10)
  ELSE ScaledDigits(TimesDigits(s, 2, 0) \o "", e - 1)

\* the digits of the fraction r / 2^k, r < 2^k
RECURSIVE FractionDigits(_, _)
FractionDigits(r, k) ==
  IF r = 0 THEN ""
  ELSE DigitChar((r * 10) \div Pow(2, k)) \o FractionDigits((r * 10) % Pow(2, k), k)

RECURSIVE PadLeft(_, _)
PadLeft(s, width) == IF Len(s) >= width THEN s ELSE PadLeft("0" \o s, width)

\* Number.prototype.toString of a double of the model
positiveToString(n, e) ==
  IF e >= 0 THEN ScaledDigits(IntDigits(n), e)
  ELSE IntDigits(n \div Pow(2, 0 - e)) \o "."
         \o FractionDigits(n % Pow(2, 0 - e), 0 - e)

NumberToString(x) ==
  IF x.k = "nan" THEN "NaN"
  ELSE IF x.k = "inf" THEN (IF x.n < 0 THEN "-Infinity" ELSE "Infinity")
  ELSE IF x.n = 0 THEN "0"
  ELSE IF x.n < 0 THEN "-" \o positiveToString(0 - x.n, x.e)
  ELSE positiveToString(x.n, x.e)

\* Number.prototype.toFixed(digits) of n * 2^e, n > 0: the integer nearest
\* to the number times 10^digits, the larger of two that are equally near,
\* printed with the point before its last digits; hundredths is that
\* integer's part below 10^digits when e < 0
fixedOf(whole, hundredths, digits) ==
  IF hundredths = Pow(10, digits) THEN IntDigits(whole + 1) \o "." \o PadLeft("", digits)
  ELSE IntDigits(whole) \o "." \o PadLeft(IntDigits(hundredths), digits)

positiveToFixed(n, e, digits) ==
  IF e >= 0 THEN ScaledDigits(IntDigits(n), e) \o "." \o PadLeft("", digits)
  ELSE fixedOf(n \div Pow(2, 0 - e),
               ((n % Pow(2, 0 - e)) * 2 * Pow(10, digits) + Pow(2, 0 - e))
                  \div Pow(2, 1 - e),
               digits)

toFixed(x, digits) ==
  IF x.k = "nan" THEN "NaN"
  ELSE IF x.k = "inf" THEN (IF x.n < 0 THEN "-Infinity" ELSE "Infinity")
  ELSE IF x.n = 0 THEN "0." \o PadLeft("", digits)
  ELSE IF x.n < 0 THEN "-" \o positiveToFixed(0 - x.n, x.e, digits)
  ELSE positiveToFixed(x.n, x.e, digits)

\* the number of binary digits of a natural number
RECURSIVE BitLength(_)
BitLength(i) == IF i = 0 THEN 0 ELSE 1 + BitLength(i \div 2)

\* n1 * 2^e1 < n2 * 2^e2 for positive odd n1 and n2: the one whose leading
\* binary digit is lower, and the comparison of NumLt when they are level
magnitudeLt(n1, e1, n2, e2) ==
  IF e1 + BitLength(n1) # e2 + BitLength(n2)
    THEN e1 + BitLength(n1) < e2 + BitLength(n2)
  ELSE n1 * Pow(2, e1 - (IF e1 < e2 THEN e1 ELSE e2))
         < n2 * Pow(2, e2 - (IF e1 < e2 THEN e1 ELSE e2))

\* x < y of two doubles n * 2^e of the model
dyadicLt(x, y) ==
  IF x.n > 0 /\ y.n > 0 THEN magnitudeLt(x.n, x.e, y.n, y.e)
  ELSE IF x.n < 0 /\ y.n < 0 THEN magnitudeLt(0 - y.n, y.e, 0 - x.n, x.e)
  ELSE x.n < y.n

IsDyadic(x) == x.k = "num" /\ x.d = 1

\* x >= y of JavaScript numbers
NumGe(x, y) ==
  /\ x.k # "nan"
  /\ y.k # "nan"
  /\ IF IsDyadic(x) /\ IsDyadic(y) THEN ~dyadicLt(x, y) ELSE ~NumLt(x, y)

\* Math.floor(x) === x
IsWhole(x) == x.k = "inf" \/ (x.k = "num" /\ (x.n = 0 \/ (x.d = 1 /\ x.e >= 0)))

formatUnits == <<"B", "KiB", "MiB", "GiB", "TiB">>

\* the loop of formatMemory, stopped one unit early
RECURSIVE scaledUpToGiB(_, _)
scaledUpToGiB(size, unitIndex) ==
  IF NumGe(size, FromInt(1024)) /\ unitIndex < Len(formatUnits) - 2
    THEN scaledUpToGiB(NumDivInt(size, 1024), unitIndex + 1)
  ELSE [size |-> size, unitIndex |-> unitIndex]

\* while (size >= 1024 && unitIndex < units.length - 1)
RECURSIVE scaledSize(_, _)
scaledSize(size, unitIndex) ==
  IF NumGe(size, FromInt(1024)) /\ unitIndex < Len(formatUnits) - 1
    THEN scaledSize(NumDivInt(size, 1024), unitIndex + 1)
  ELSE [size |-> size, unitIndex |-> unitIndex]

formatScaled(s) ==
  [value |-> toFixed(s.size, 2), unit |-> formatUnits[s.unitIndex + 1]]

formatMemory(bytes) ==
  IF bytes = Zero THEN [value |-> "0", unit |-> "B"]
  ELSE formatScaled(scaledSize(bytes, 0))

formatMemoryText(f) == f.value \o " " \o f.unit

\* the formatter with the memory units for every value that is not of pods
formatGenericResourceWholeInUnits(v, type) ==
  IF type = "pods" THEN NumberToString(v) ELSE formatMemoryText(formatMemory(v))

formatGenericResource(v, type) ==
  IF type = "pods" \/ (~IsNaN(v) /\ IsWhole(v)) THEN NumberToString(v)
  ELSE formatMemoryText(formatMemory(v))

(***************************************************************************)
(* ProjectSelector: the text of its button                                 *)
(***************************************************************************)
buttonTextOf(selected, available) ==
  IF Cardinality(selected) = 0 THEN "All Projects"
  ELSE IF Cardinality(selected) = Len(available) /\ Len(available) > 0
    THEN "All Projects"
  ELSE "Projects (" \o IntDigits(Cardinality(selected)) \o ")"

(***************************************************************************)
(* Inputs: the entries the watches deliver and the quantity strings        *)
(***************************************************************************)
Q1 == <<"1">>
Q3 == <<"3">>
Q4 == <<"4">>
Q250m == <<"2", "5", "0", "m">>
Q500m == <<"5", "0", "0", "m">>
Q2000m == <<"2", "0", "0", "0", "m">>
Q1Ki == <<"1", "K", "i">>
Q8Ki == <<"8", "K", "i">>

nodeA == [Node("a", "n1", [r \in {"cpu", "memory"} |-> IF r = "cpu" THEN Q4 ELSE Q8Ki])
           EXCEPT !.labels = {Label(RolePrefix, "master", "")}]
nodeB == [Node("b", "n2", [r \in {"cpu"} |-> Q4])
           EXCEPT !.labels = {Label(RolePrefix, "worker", "true"),
                              Label(RolePrefix, "infra", "false"),
                              Label(RolePrefix, "", ""),
                              Label("kubernetes.io/", "hostname", "b")}]
nodeNoUid == [Node("c", "", [r \in {"cpu", "memory"} |-> IF r = "cpu" THEN Q4 ELSE Q8Ki])
                EXCEPT !.hasUid = FALSE]
nodeNull == [isNull |-> TRUE, hasMetadata |-> FALSE, hasUid |-> FALSE,
             uid |-> "", name |-> "", labels |-> {}, hasStatus |-> FALSE,
             hasCapacity |-> FALSE, capacity |-> NoMap]
NodePool == <<nodeB, nodeA, nodeNoUid, nodeNull>>

\* nodes of every kind of role group
nodeControlPlane == [Node("d", "n4", [r \in {"cpu"} |-> Q4])
                      EXCEPT !.labels = {Label(RolePrefix, "master", ""),
                                         Label(RolePrefix, "control-plane", "")}]
nodeInfraWorker == [Node("e", "n5", [r \in {"cpu"} |-> Q4])
                     EXCEPT !.labels = {Label(RolePrefix, "worker", ""),
                                        Label(RolePrefix, "infra", "")}]
nodeInfra == [Node("f", "n6", [r \in {"cpu"} |-> Q4])
               EXCEPT !.labels = {Label(RolePrefix, "infra", "true"),
                                  Label(RolePrefix, "worker", "no")}]
nodeWorker == [Node("g", "n7", [r \in {"cpu"} |-> Q4])
                EXCEPT !.labels = {Label(RolePrefix, "worker", "")}]
nodeNoRole == [Node("h", "n8", [r \in {"cpu"} |-> Q4])
                EXCEPT !.labels = {Label("kubernetes.io/", "hostname", "h")}]
RoleNodePool == <<nodeB, nodeInfraWorker, nodeNoRole, nodeA, nodeInfra,
                  nodeWorker, nodeControlPlane>>

podRun == Pod("run", "p1", "x", "a", "Running",
              <<Container([r \in {"cpu"} |-> Q2000m], [r \in {"cpu"} |-> Q3])>>)
podTwo == Pod("two", "p2", "y", "a", "Running",
              <<Container([r \in {"cpu"} |-> Q500m], [r \in {"memory"} |-> Q1Ki]),
                Container([r \in {"cpu"} |-> Q250m],
                          [r \in {"cpu", "pods"} |-> Q1])>>)
podLim == Pod("lim", "p3", "x", "b", "Running",
              <<Container(NoMap, [r \in {"cpu"} |-> Q1])>>)
podDone == Pod("done", "p4", "x", "a", "Succeeded",
               <<Container([r \in {"cpu"} |-> Q1], NoMap)>>)
podPending == Pod("pending", "p5", "y", "", "Pending",
                  <<Container([r \in {"cpu"} |-> Q500m], NoMap)>>)
QMinus2 == <<"-", "2">>
podNegative == Pod("negative", "p7", "y", "a", "Running",
                   <<Container([r \in {"memory"} |-> QMinus2], NoMap)>>)
podNoUid == [Pod("nouid", "", "x", "b", "Running",
                 <<Container([r \in {"cpu"} |-> Q1], NoMap)>>)
               EXCEPT !.hasUid = FALSE]
podNoMetadata == [Pod("", "", "", "b", "Running",
                      <<Container([r \in {"cpu"} |-> Q1], NoMap)>>)
                    EXCEPT !.hasMetadata = FALSE, !.hasUid = FALSE]
PodPool == <<podRun, podTwo, podLim, podDone, podPending, podNegative,
             podNoUid, podNoMetadata>>

\* a pod whose containers request Infinity and -Infinity, and a pod that
\* runs nowhere
podInfinite == Pod("infinite", "p9", "x", "a", "Running",
                   <<Container([r \in {"cpu"} |-> InfinityLiteral], NoMap),
                     Container([r \in {"cpu"} |-> <<"-">> \o InfinityLiteral], NoMap)>>)
podUnknown == Pod("unknown", "p10", "x", "", "Unknown",
                  <<Container([r \in {"cpu"} |-> Q1], NoMap)>>)
podStarting == Pod("starting", "p11", "x", "b", "Pending",
                   <<Container([r \in {"cpu"} |-> Q1], NoMap)>>)
ListedPodPool == <<podInfinite, podRun, podTwo, podLim, podDone, podPending,
                   podNegative, podUnknown, podStarting, podNoUid>>

\* pods with conditions: the pods prop of ClusterOverview and of
\* SchedulingPressure
NoRequests == <<Container(NoMap, NoMap)>>
Unschedulable(message) == Condition("PodScheduled", "False", "Unschedulable", message)
MessageInsufficient ==
  "0/3 nodes are available: 1 Insufficient cpu, 2 Insufficient memory. preemption: 0/3 nodes are available: 3 No preemption victims found for incoming pod."
MessageTaint ==
  "0/5 nodes are available: 2 node(s) had taint {node-role.kubernetes.io/master: }, that the pod didn't tolerate, 3 node(s) didn't match Pod's node affinity/selector."
MessagePvc == "0/3 nodes are available: persistentvolumeclaim \"data\" not found."
MessageLong ==
  "pod rejected: the admission webhook of the cluster denied the request because the pod template requests a priority class that does not exist"

podUnscheduledTaint ==
  withConditions(Pod("taint", "f1", "x", "", "Pending", NoRequests), TRUE,
                 <<Unschedulable(MessageTaint)>>)
podUnscheduledCpu ==
  withConditions(Pod("cpu", "f2", "x", "", "Pending", NoRequests), TRUE,
                 <<Condition("Initialized", "True", "", ""),
                   Unschedulable(MessageInsufficient)>>)
podUnscheduledCpuAgain ==
  withConditions(Pod("again", "f3", "y", "", "Pending", NoRequests), TRUE,
                 <<Condition("PodScheduled", "True", "", "ignored"),
                   Unschedulable("0/9 nodes are available: 1 Insufficient cpu."),
                   Unschedulable(MessagePvc)>>)
podUnscheduledReasonOnly ==
  withConditions(Pod("reason", "f4", "y", "", "Pending", NoRequests), TRUE,
                 <<Unschedulable("")>>)
podUnscheduledBare ==
  withConditions(Pod("bare", "f5", "y", "", "Pending", NoRequests), TRUE,
                 <<Condition("PodScheduled", "False", "", "")>>)
podUnscheduledNoConditions ==
  withConditions(Pod("none", "f6", "x", "", "Pending", NoRequests), FALSE, <<>>)
podUnscheduledOtherCondition ==
  withConditions(Pod("other", "f7", "x", "", "Pending", NoRequests), TRUE,
                 <<Condition("PodScheduled", "Unknown", "Unschedulable", MessagePvc),
                   Condition("Ready", "False", "ContainersNotReady", "not ready")>>)
podUnscheduledLong ==
  withConditions(Pod("long", "f8", "x", "", "Pending", NoRequests), TRUE,
                 <<Unschedulable(MessageLong)>>)
podUnscheduledIndex ==
  withConditions(Pod("index", "f9", "x", "", "Pending", NoRequests), TRUE,
                 <<Unschedulable("exit status: 7")>>)
podPlaced ==
  withConditions(podRun, TRUE, <<Condition("PodScheduled", "True", "", "")>>)
podFailed ==
  withConditions(Pod("failed", "f10", "x", "", "Failed", NoRequests), TRUE,
                 <<Unschedulable(MessagePvc)>>)
FailurePodPool ==
  <<podUnscheduledNoConditions, podUnscheduledCpu, podPlaced,
    podUnscheduledReasonOnly, podUnscheduledCpuAgain, podUnscheduledBare,
    podUnscheduledTaint, podUnscheduledOtherCondition, podFailed,
    podUnscheduledLong, podUnscheduledIndex>>

namespaceNull == [isNull |-> TRUE, hasMetadata |-> FALSE, name |-> ""]
NamespacePool == <<Namespace("y"), Namespace("x"), namespaceNull>>

\* the lists a watch delivers: at most n entries of the pool, each once, in
\* the pool's order
ListsOf(pool, n) ==
  {FilterIdx(pool, S, 1) :
     S \in {T \in SUBSET (1..Len(pool)) : Cardinality(T) <= n}}

Alphabet == {"0", "2", "5", ".", "m", "G", "i", "-"}
ExtraQuantities ==
  {Q2000m, <<"1", "e", "3">>, <<"2", "e", "-", "1">>, <<" ", "5">>,
   <<"+", "5">>, <<"5", "x">>, <<"5", "1", "2", "M", "i">>,
   InfinityLiteral, <<"-">> \o InfinityLiteral,
   <<"1", "G", "i">>, <<"2", "K", "i">>, <<"2", ".", "5", "T", "i">>,
   <<"5", "P", "i">>, <<"2", "E", "i">>, <<"0", ".", "5", "E", "i">>}
Quantities == UNION {[1..k -> Alphabet] : k \in 0..MaxLen} \cup ExtraQuantities
ResourceKinds == {"cpu", "memory", "pods"}

\* the watches of the page and of SchedulingEvents, and the flags of a
\* watch that has reported nothing yet
Watches == {"nodes", "pods", "namespaces", "events"}
NotLoaded == [loaded |-> FALSE, error |-> FALSE]

(***************************************************************************)
(* State                                                                   *)
(***************************************************************************)
VARIABLES
  nodes, nodesLoaded, pods, namespaces,      \* the watches' snapshots
  selectedResources, selectedNamespaces,     \* useState of SchedulerPage
  hideEmptyNodes,
  memo,                                      \* the useMemo cells
  renderError,                               \* a render pass threw
  quantity, kind, parsed, pc,                \* a call of a quantity parser
  sampleNodes, sampleUsage, sampleStats,     \* a call of clusterStats
  watches,                                   \* loaded and error of each watch
  failurePods, failures,                     \* a pass of the failure table
  value, resourceType, formatted             \* a call of a formatter

watchVars == <<nodes, nodesLoaded, pods, namespaces>>
selectionVars == <<selectedResources, selectedNamespaces>>
pageVars == <<hideEmptyNodes, memo>>
parserVars == <<quantity, kind, parsed, pc>>
sampleVars == <<sampleNodes, sampleUsage, sampleStats>>
failureVars == <<failurePods, failures>>
formatVars == <<value, resourceType, formatted>>
vars == <<watchVars, selectionVars, pageVars, renderError, parserVars,
          sampleVars, watches, failureVars, formatVars>>

\* One render pass of SchedulerPage with the given inputs: it throws when
\* one of its memos throws, and then nothing is displayed any more.
renderThrows(nodesIn, podsIn, namespacesIn, selNs) ==
  \/ availableResourcesThrows(nodesIn)
  \/ availableNamespacesThrows(namespacesIn)
  \/ filteredPodsThrows(podsIn, selNs)

\* The derived structures of the current render pass, as computed from the
\* current snapshots and selections.  (Spec does not follow the memo cells
\* that hold them from pass to pass; SpecMemo does.)
validNodes == validNodesOf(nodes)
availableResources == availableResourcesOf(nodes)
availableNamespaces == availableNamespacesOf(namespaces)
filteredPods == filteredPodsOf(pods, selectedNamespaces)
nodeResourceUsage == nodeResourceUsageOf(filteredPods)
podsByNode == podsByNodeOf(filteredPods)
unscheduledPods == unscheduledPodsOf(filteredPods)
clusterStats ==
  LET props == ClusterOverviewProps(nodes, filteredPods, nodeResourceUsage,
                                    selectedResources)
  IN clusterStatsOf(props.nodes, props.pods, props.nodeResourceUsage,
                    props.selectedResources)

\* the page is displayed: no render pass threw.  The children (selectors,
\* SchedulingPressure, node cards) are displayed once the nodes have loaded
displayed == ~renderError
childrenDisplayed == ~renderError /\ nodesLoaded

Init ==
  /\ nodes = <<>>
  /\ nodesLoaded = FALSE
  /\ pods = <<>>
  /\ namespaces = <<>>
  /\ selectedResources = {"cpu", "memory"}
  /\ selectedNamespaces = {}
  /\ hideEmptyNodes = FALSE
  /\ memo = mountedCells(<<>>, <<>>, <<>>, {}, FALSE)
  /\ renderError = FALSE
  /\ watches = [w \in Watches |-> NotLoaded]
  /\ quantity = <<>>
  /\ kind = "cpu"
  /\ parsed = Zero
  /\ pc = "idle"
  /\ sampleNodes = <<>>
  /\ sampleUsage = NoMap
  /\ sampleStats = null
  /\ failurePods = <<>>
  /\ failures = null
  /\ value = Zero
  /\ resourceType = "memory"
  /\ formatted = ""

(***************************************************************************)
(* Actions of the page                                                     *)
(***************************************************************************)
\* the node watch delivers a list: it replaces the previous one in full
NodesSnapshot ==
  /\ ~renderError
  /\ \E list \in ListsOf(NodePool, MaxNodes) :
       /\ nodes' = list
       /\ nodesLoaded' = TRUE
       /\ renderError' = renderThrows(list, pods, namespaces, selectedNamespaces)
  /\ UNCHANGED <<pods, namespaces, selectionVars, pageVars, parserVars,
                 sampleVars, watches,
                 failureVars, formatVars>>

PodsSnapshot ==
  /\ ~renderError
  /\ \E list \in ListsOf(PodPool, MaxPods) :
       /\ pods' = list
       /\ renderError' = renderThrows(nodes, list, namespaces, selectedNamespaces)
  /\ UNCHANGED <<nodes, nodesLoaded, namespaces, selectionVars, pageVars,
                 parserVars, sampleVars, watches,
                 failureVars, formatVars>>

NamespacesSnapshot ==
  /\ ~renderError
  /\ \E list \in ListsOf(NamespacePool, Len(NamespacePool)) :
       /\ namespaces' = list
       /\ renderError' = renderThrows(nodes, pods, list, selectedNamespaces)
  /\ UNCHANGED <<nodes, nodesLoaded, pods, selectionVars, pageVars,
                 parserVars, sampleVars, watches,
                 failureVars, formatVars>>

\* the selectors are rendered once the nodes have loaded and there is
\* something to select
handleResourceToggle ==
  /\ childrenDisplayed
  /\ \E i \in 1..Len(availableResources) :
       LET resource == availableResources[i]
       IN selectedResources' = IF resource \in selectedResources
                                 THEN selectedResources \ {resource}
                               ELSE selectedResources \cup {resource}
  /\ UNCHANGED <<watchVars, selectedNamespaces, pageVars, renderError,
                 parserVars, sampleVars, watches,
                 failureVars, formatVars>>

handleNamespaceToggle ==
  /\ childrenDisplayed
  /\ \E i \in 1..Len(availableNamespaces) :
       LET namespace == availableNamespaces[i]
           newSet == IF namespace \in selectedNamespaces
                       THEN selectedNamespaces \ {namespace}
                     ELSE selectedNamespaces \cup {namespace}
       IN /\ selectedNamespaces' = newSet
          /\ renderError' = renderThrows(nodes, pods, namespaces, newSet)
  /\ UNCHANGED <<watchVars, selectedResources, pageVars, parserVars,
                 sampleVars, watches,
                 failureVars, formatVars>>

handleSelectAllNamespaces ==
  /\ childrenDisplayed
  /\ Len(availableNamespaces) > 0
  /\ LET newSet == {availableNamespaces[i] : i \in 1..Len(availableNamespaces)}
     IN /\ selectedNamespaces' = newSet
        /\ renderError' = renderThrows(nodes, pods, namespaces, newSet)
  /\ UNCHANGED <<watchVars, selectedResources, pageVars, parserVars,
                 sampleVars, watches,
                 failureVars, formatVars>>

handleClearAllNamespaces ==
  /\ childrenDisplayed
  /\ Len(availableNamespaces) > 0
  /\ selectedNamespaces' = {}
  /\ renderError' = renderThrows(nodes, pods, namespaces, {})
  /\ UNCHANGED <<watchVars, selectedResources, pageVars, parserVars,
                 sampleVars, watches,
                 failureVars, formatVars>>

Next ==
  \/ NodesSnapshot
  \/ PodsSnapshot
  \/ NamespacesSnapshot
  \/ handleResourceToggle
  \/ handleNamespaceToggle
  \/ handleSelectAllNamespaces
  \/ handleClearAllNamespaces

Spec == Init /\ [][Next]_vars

(***************************************************************************)
(* The quantity parsers as a one-step machine over bounded inputs          *)
(***************************************************************************)
InitParser ==
  /\ nodes = <<>>
  /\ nodesLoaded = FALSE
  /\ pods = <<>>
  /\ namespaces = <<>>
  /\ selectedResources = {"cpu", "memory"}
  /\ selectedNamespaces = {}
  /\ hideEmptyNodes = FALSE
  /\ memo = mountedCells(<<>>, <<>>, <<>>, {}, FALSE)
  /\ renderError = FALSE
  /\ watches = [w \in Watches |-> NotLoaded]
  /\ quantity \in Quantities
  /\ kind \in ResourceKinds
  /\ parsed = Zero
  /\ pc = "start"
  /\ sampleNodes = <<>>
  /\ sampleUsage = NoMap
  /\ sampleStats = null
  /\ failurePods = <<>>
  /\ failures = null
  /\ value = Zero
  /\ resourceType = "memory"
  /\ formatted = ""

ParseQuantity ==
  /\ pc = "start"
  /\ parsed' = parseByResource(kind, quantity)
  /\ pc' = "done"
  /\ UNCHANGED <<quantity, kind, watchVars, selectionVars, pageVars,
                 renderError, sampleVars, watches,
                 failureVars, formatVars>>

NextParser == ParseQuantity

SpecParser == InitParser /\ [][NextParser]_vars

(***************************************************************************)
(* ClusterOverview.clusterStats as a one-step machine over larger node     *)
(* lists: n nodes of cpu capacity "100", node i using (i * stride) mod 101 *)
(* cores, so that its percentage is that number                            *)
(***************************************************************************)
Q100 == <<"1", "0", "0">>
SampleStrides == {0, 1, 37}

sampleNode(i) == Node(ToString(i), ToString(i), [r \in {"cpu"} |-> Q100])

sampleUsageOf(n, stride) ==
  [r \in {"cpu"} |->
     [requests |-> [name \in {ToString(i) : i \in 1..n} |->
                      LET i == CHOOSE x \in 1..n : ToString(x) = name
                      IN FromInt((i * stride) % 101)],
      limits |-> NoMap]]

InitStats ==
  /\ nodes = <<>>
  /\ nodesLoaded = FALSE
  /\ pods = <<>>
  /\ namespaces = <<>>
  /\ selectedResources = {"cpu", "memory"}
  /\ selectedNamespaces = {}
  /\ hideEmptyNodes = FALSE
  /\ memo = mountedCells(<<>>, <<>>, <<>>, {}, FALSE)
  /\ renderError = FALSE
  /\ watches = [w \in Watches |-> NotLoaded]
  /\ quantity = <<>>
  /\ kind = "cpu"
  /\ parsed = Zero
  /\ pc = "sample"
  /\ \E n \in 0..MaxSample, stride \in SampleStrides :
       /\ sampleNodes = [i \in 1..n |-> sampleNode(i)]
       /\ sampleUsage = sampleUsageOf(n, stride)
  /\ sampleStats = null
  /\ failurePods = <<>>
  /\ failures = null
  /\ value = Zero
  /\ resourceType = "memory"
  /\ formatted = ""

ComputeStats ==
  /\ pc = "sample"
  /\ sampleStats' = clusterStatsOf(sampleNodes, <<>>, sampleUsage, {"cpu"})
  /\ pc' = "computed"
  /\ UNCHANGED <<watchVars, selectionVars, pageVars, renderError, quantity,
                 kind, parsed, sampleNodes, sampleUsage, watches,
                 failureVars, formatVars>>

NextStats == ComputeStats

SpecStats == InitStats /\ [][NextStats]_vars

(***************************************************************************)
(* SchedulerPage with its memo cells: every change of state is followed by *)
(* a render pass in which each useMemo keeps or recomputes its cell.  The  *)
(* snapshots hold well-formed entries, a node without uid and a pod        *)
(* without uid, so that no pass throws.                                    *)
(***************************************************************************)
MemoNodePool == <<nodeB, nodeA, nodeNoUid>>
MemoPodPool == <<podRun, podTwo, podLim, podDone, podPending, podNoUid>>
MemoNamespacePool == <<Namespace("y"), Namespace("x")>>

\* the cells and the inputs of the last render pass
lastPass ==
  [cells |-> memo, nodes |-> nodes, pods |-> pods, namespaces |-> namespaces,
   selectedNamespaces |-> selectedNamespaces, hide |-> hideEmptyNodes]

\* the render pass that follows a change of state
Rerender ==
  memo' = renderedCells(lastPass, nodes', pods', namespaces',
                        selectedNamespaces', hideEmptyNodes')

RenderNodesSnapshot ==
  /\ \E list \in ListsOf(MemoNodePool, MaxNodes) :
       /\ nodes' = list
       /\ nodesLoaded' = TRUE
  /\ UNCHANGED <<pods, namespaces, selectionVars, hideEmptyNodes, renderError,
                 parserVars, sampleVars, watches,
                 failureVars, formatVars>>
  /\ Rerender

RenderPodsSnapshot ==
  /\ \E list \in ListsOf(MemoPodPool, MaxPods) : pods' = list
  /\ UNCHANGED <<nodes, nodesLoaded, namespaces, selectionVars, hideEmptyNodes,
                 renderError, parserVars, sampleVars, watches,
                 failureVars, formatVars>>
  /\ Rerender

RenderNamespacesSnapshot ==
  /\ \E list \in ListsOf(MemoNamespacePool, Len(MemoNamespacePool)) :
       namespaces' = list
  /\ UNCHANGED <<nodes, nodesLoaded, pods, selectionVars, hideEmptyNodes,
                 renderError, parserVars, sampleVars, watches,
                 failureVars, formatVars>>
  /\ Rerender

\* the handlers, reading the cells of the pass that rendered the selectors
RenderResourceToggle ==
  /\ nodesLoaded
  /\ \E i \in 1..Len(memo.availableResources) :
       LET resource == memo.availableResources[i]
       IN selectedResources' = IF resource \in selectedResources
                                 THEN selectedResources \ {resource}
                               ELSE selectedResources \cup {resource}
  /\ UNCHANGED <<watchVars, selectedNamespaces, hideEmptyNodes, renderError,
                 parserVars, sampleVars, watches,
                 failureVars, formatVars>>
  /\ Rerender

RenderNamespaceToggle ==
  /\ nodesLoaded
  /\ \E i \in 1..Len(memo.availableNamespaces) :
       LET namespace == memo.availableNamespaces[i]
       IN selectedNamespaces' = IF namespace \in selectedNamespaces
                                  THEN selectedNamespaces \ {namespace}
                                ELSE selectedNamespaces \cup {namespace}
  /\ UNCHANGED <<watchVars, selectedResources, hideEmptyNodes, renderError,
                 parserVars, sampleVars, watches,
                 failureVars, formatVars>>
  /\ Rerender

RenderSelectAllNamespaces ==
  /\ nodesLoaded
  /\ Len(memo.availableNamespaces) > 0
  /\ selectedNamespaces' = {memo.availableNamespaces[i] :
                              i \in 1..Len(memo.availableNamespaces)}
  /\ UNCHANGED <<watchVars, selectedResources, hideEmptyNodes, renderError,
                 parserVars, sampleVars, watches,
                 failureVars, formatVars>>
  /\ Rerender

RenderClearAllNamespaces ==
  /\ nodesLoaded
  /\ Len(memo.availableNamespaces) > 0
  /\ selectedNamespaces' = {}
  /\ UNCHANGED <<watchVars, selectedResources, hideEmptyNodes, renderError,
                 parserVars, sampleVars, watches,
                 failureVars, formatVars>>
  /\ Rerender

\* the checkbox "Only show nodes with workloads"
RenderHideEmptyNodesChange ==
  /\ nodesLoaded
  /\ hideEmptyNodes' = ~hideEmptyNodes
  /\ UNCHANGED <<watchVars, selectionVars, renderError, parserVars, sampleVars, watches,
                 failureVars, formatVars>>
  /\ Rerender

NextMemo ==
  \/ RenderNodesSnapshot
  \/ RenderPodsSnapshot
  \/ RenderNamespacesSnapshot
  \/ RenderResourceToggle
  \/ RenderNamespaceToggle
  \/ RenderSelectAllNamespaces
  \/ RenderClearAllNamespaces
  \/ RenderHideEmptyNodesChange

SpecMemo == Init /\ [][NextMemo]_vars

(***************************************************************************)
(* The loaded and error flags of the watches, and what is rendered of them *)
(***************************************************************************)
\* SchedulerPage: if (nodesError) return <div>Error loading nodes</div>,
\* then the spinner while !nodesLoaded, else the content; the error of the
\* pod watch and of the namespace watch is not destructured
pageViewOf(nodesWatch, podsWatch, namespacesWatch) ==
  IF nodesWatch.error THEN "Error loading nodes"
  ELSE IF ~nodesWatch.loaded THEN "Spinner"
  ELSE "content"

\* SchedulingEvents: if (!loaded) the spinner, then if (error) the message
schedulingEventsViewOf(eventsWatch) ==
  IF ~eventsWatch.loaded THEN "Spinner"
  ELSE IF eventsWatch.error THEN "Error loading events"
  ELSE "events"

pageView == pageViewOf(watches["nodes"], watches["pods"], watches["namespaces"])
\* SchedulingEvents is part of the content
eventsMounted == pageView = "content"
schedulingEventsView == schedulingEventsViewOf(watches["events"])

\* a watch of the page reports a list, or an error with or without one
PageWatchLoaded ==
  /\ \E w \in {"nodes", "pods", "namespaces"} :
       watches' = [watches EXCEPT ![w] = [loaded |-> TRUE, error |-> FALSE]]
  /\ UNCHANGED <<watchVars, selectionVars, pageVars, renderError, parserVars,
                 sampleVars, failureVars, formatVars>>

PodsOrNamespacesWatchFailed ==
  /\ \E w \in {"pods", "namespaces"} :
       watches' = [watches EXCEPT ![w].error = TRUE]
  /\ UNCHANGED <<watchVars, selectionVars, pageVars, renderError, parserVars,
                 sampleVars, failureVars, formatVars>>

\* the content, and SchedulingEvents with its watch, is unmounted
NodesWatchFailed ==
  /\ watches' = [watches EXCEPT !["nodes"].error = TRUE,
                                !["events"] = NotLoaded]
  /\ UNCHANGED <<watchVars, selectionVars, pageVars, renderError, parserVars,
                 sampleVars, failureVars, formatVars>>

EventsWatchLoaded ==
  /\ eventsMounted
  /\ watches' = [watches EXCEPT !["events"] = [loaded |-> TRUE, error |-> FALSE]]
  /\ UNCHANGED <<watchVars, selectionVars, pageVars, renderError, parserVars,
                 sampleVars, failureVars, formatVars>>

EventsWatchFailed ==
  /\ eventsMounted
  /\ watches' = [watches EXCEPT !["events"].error = TRUE]
  /\ UNCHANGED <<watchVars, selectionVars, pageVars, renderError, parserVars,
                 sampleVars, failureVars, formatVars>>

NextWatch ==
  \/ PageWatchLoaded
  \/ PodsOrNamespacesWatchFailed
  \/ NodesWatchFailed
  \/ EventsWatchLoaded
  \/ EventsWatchFailed

SpecWatch == Init /\ [][NextWatch]_vars

(***************************************************************************)
(* The failure table and the boxes of the unscheduled pods as a one-step   *)
(* machine over lists of pods with conditions                              *)
(***************************************************************************)
InitFailures ==
  /\ nodes = <<>>
  /\ nodesLoaded = FALSE
  /\ pods = <<>>
  /\ namespaces = <<>>
  /\ selectedResources = {"cpu", "memory"}
  /\ selectedNamespaces = {}
  /\ hideEmptyNodes = FALSE
  /\ memo = mountedCells(<<>>, <<>>, <<>>, {}, FALSE)
  /\ renderError = FALSE
  /\ watches = [w \in Watches |-> NotLoaded]
  /\ quantity = <<>>
  /\ kind = "cpu"
  /\ parsed = Zero
  /\ pc = "pods"
  /\ sampleNodes = <<>>
  /\ sampleUsage = NoMap
  /\ sampleStats = null
  /\ failurePods \in ListsOf(FailurePodPool, MaxFailurePods)
  /\ failures = null
  /\ value = Zero
  /\ resourceType = "memory"
  /\ formatted = ""

RenderFailures ==
  /\ pc = "pods"
  /\ failures' =
       [isNull |-> FALSE,
        classified |-> classifiedPodsOf(failurePods),
        schedulingFailures |-> schedulingFailuresOf(failurePods),
        unscheduledPods |-> clusterStatsOf(<<>>, failurePods, NoMap, {}).unscheduledPods]
  /\ pc' = "rendered"
  /\ UNCHANGED <<watchVars, selectionVars, pageVars, renderError, quantity,
                 kind, parsed, sampleVars, watches, failurePods, formatVars>>

NextFailures == RenderFailures

SpecFailures == InitFailures /\ [][NextFailures]_vars

(***************************************************************************)
(* The formatters as a one-step machine over a value and a resource name   *)
(***************************************************************************)
\* the byte counts around every unit of formatMemory and beyond the last
FormatExponents == {0 - 8, 0 - 1, 0, 9, 10, 20, 29, 30, 40, 50, 52}

\* the values just below and just above a power of 1024
BoundaryMantissas == {1023, 1025, 262143}
BoundaryExponents == {0 - 8, 0, 2, 10, 12, 22, 32}

FormatValues ==
  {MkNum(n, 1, e) : n \in 0..MaxMantissa, e \in FormatExponents}
    \cup {MkNum(n, 1, e) : n \in BoundaryMantissas, e \in BoundaryExponents}
    \cup {MkNum(0 - n, 1, e) : n \in {1, 3}, e \in {0 - 1, 0, 10}}
    \cup {NaN, Infinity, NegInfinity}

\* the resources of the generic bars of NodeCard
FormatResourceTypes == {"pods", "ephemeral-storage", "nvidia.com/gpu"}

InitFormat ==
  /\ nodes = <<>>
  /\ nodesLoaded = FALSE
  /\ pods = <<>>
  /\ namespaces = <<>>
  /\ selectedResources = {"cpu", "memory"}
  /\ selectedNamespaces = {}
  /\ hideEmptyNodes = FALSE
  /\ memo = mountedCells(<<>>, <<>>, <<>>, {}, FALSE)
  /\ renderError = FALSE
  /\ watches = [w \in Watches |-> NotLoaded]
  /\ quantity = <<>>
  /\ kind = "cpu"
  /\ parsed = Zero
  /\ pc = "value"
  /\ sampleNodes = <<>>
  /\ sampleUsage = NoMap
  /\ sampleStats = null
  /\ failurePods = <<>>
  /\ failures = null
  /\ value \in FormatValues
  /\ resourceType \in FormatResourceTypes
  /\ formatted = ""

\* a memory bar prints the value
FormatMemory ==
  /\ pc = "value"
  /\ formatted' = formatMemory(value)
  /\ pc' = "memory"
  /\ UNCHANGED <<watchVars, selectionVars, pageVars, renderError, quantity,
                 kind, parsed, sampleVars, watches, failureVars, value,
                 resourceType>>

\* a generic bar prints the value
FormatGenericResource ==
  /\ pc = "value"
  /\ formatted' = formatGenericResource(value, resourceType)
  /\ pc' = "generic"
  /\ UNCHANGED <<watchVars, selectionVars, pageVars, renderError, quantity,
                 kind, parsed, sampleVars, watches, failureVars, value,
                 resourceType>>

NextFormat ==
  \/ FormatMemory
  \/ FormatGenericResource

SpecFormat == InitFormat /\ [][NextFormat]_vars

(***************************************************************************)
(* The role groups of the compact view as a one-step machine over a        *)
(* snapshot of nodes: the first render pass of SchedulerPage               *)
(***************************************************************************)
InitRoles ==
  /\ nodes \in ListsOf(RoleNodePool, MaxRoleNodes)
  /\ nodesLoaded = TRUE
  /\ pods \in ListsOf(<<podRun>>, 1)
  /\ namespaces = <<>>
  /\ selectedResources = {"cpu", "memory"}
  /\ selectedNamespaces = {}
  /\ hideEmptyNodes \in BOOLEAN
  /\ memo = mountedCells(<<>>, <<>>, <<>>, {}, FALSE)
  /\ renderError = FALSE
  /\ watches = [w \in Watches |-> NotLoaded]
  /\ quantity = <<>>
  /\ kind = "cpu"
  /\ parsed = Zero
  /\ pc = "nodes"
  /\ sampleNodes = <<>>
  /\ sampleUsage = NoMap
  /\ sampleStats = null
  /\ failurePods = <<>>
  /\ failures = null
  /\ value = Zero
  /\ resourceType = "memory"
  /\ formatted = ""

RenderRoles ==
  /\ pc = "nodes"
  /\ memo' = mountedCells(nodes, pods, namespaces, selectedNamespaces, hideEmptyNodes)
  /\ pc' = "rendered"
  /\ UNCHANGED <<watchVars, selectionVars, hideEmptyNodes, renderError,
                 quantity, kind, parsed, sampleVars, watches, failureVars,
                 formatVars>>

NextRoles == RenderRoles

SpecRoles == InitRoles /\ [][NextRoles]_vars

(***************************************************************************)
(* The totals and the pod lists as a one-step machine over a snapshot of   *)
(* pods and a namespace selection: the first render pass of SchedulerPage  *)
(***************************************************************************)
InitTotals ==
  /\ nodes = <<nodeB, nodeA>>
  /\ nodesLoaded = TRUE
  /\ pods \in ListsOf(ListedPodPool, MaxListedPods)
  /\ namespaces = <<>>
  /\ selectedResources = {"cpu", "memory"}
  /\ selectedNamespaces \in {{}, {"x"}}
  /\ hideEmptyNodes = FALSE
  /\ memo = mountedCells(<<>>, <<>>, <<>>, {}, FALSE)
  /\ renderError = FALSE
  /\ watches = [w \in Watches |-> NotLoaded]
  /\ quantity = <<>>
  /\ kind = "cpu"
  /\ parsed = Zero
  /\ pc = "pods"
  /\ sampleNodes = <<>>
  /\ sampleUsage = NoMap
  /\ sampleStats = null
  /\ failurePods = <<>>
  /\ failures = null
  /\ value = Zero
  /\ resourceType = "memory"
  /\ formatted = ""

RenderTotals ==
  /\ pc = "pods"
  /\ memo' = mountedCells(nodes, pods, namespaces, selectedNamespaces, hideEmptyNodes)
  /\ pc' = "rendered"
  /\ UNCHANGED <<watchVars, selectionVars, hideEmptyNodes, renderError,
                 quantity, kind, parsed, sampleVars, watches, failureVars,
                 formatVars>>

NextTotals == RenderTotals

SpecTotals == InitTotals /\ [][NextTotals]_vars

(***************************************************************************)
(* Properties                                                              *)
(***************************************************************************)
ResourceNames == {"cpu", "memory", "pods"}
NodeNames == {"a", "b", "c"}

RECURSIVE SumNums(_)
SumNums(seq) == IF seq = <<>> THEN Zero ELSE NumAdd(Head(seq), SumNums(Tail(seq)))

\* the sum over a pod's containers of the parsed entries of one side, a
\* container without the entry counting 0
SumParsed(pod, side, resourceName) ==
  SumNums([i \in 1..Len(pod.containers) |->
             LET map == IF side = "requests" THEN pod.containers[i].requests
                        ELSE pod.containers[i].limits
             IN IF resourceName \in DOMAIN map
                  THEN parseByResource(resourceName, map[resourceName])
                ELSE Zero])

Larger(x, y) == IF NumLt(x, y) THEN y ELSE x

\* C1: for every pod and every resource name, the pod's effective value is
\* the larger of the sum of its containers' parsed requests and the sum of
\* their parsed limits, a missing entry counting 0.
C1_PodEffectiveIsMaxOfSums ==
  \A i \in 1..Len(pods) :
     isValidPod(pods[i]) =>
       /\ \A r \in ResourceNames :
            calculatePodEffectiveResource(pods[i], r) =
              Larger(SumParsed(pods[i], "requests", r),
                     SumParsed(pods[i], "limits", r))
       /\ calculatePodEffectiveCPU(pods[i]) =
            Larger(SumParsed(pods[i], "requests", "cpu"),
                   SumParsed(pods[i], "limits", "cpu"))
       /\ calculatePodEffectiveMemory(pods[i]) =
            Larger(SumParsed(pods[i], "requests", "memory"),
                   SumParsed(pods[i], "limits", "memory"))

\* a pod of two containers whose limits (1 core) exceed its requests (750m)
C1_Witness ==
  \E i \in 1..Len(pods) :
     /\ isValidPod(pods[i])
     /\ Len(pods[i].containers) = 2
     /\ SumParsed(pods[i], "requests", "cpu") = Ratio(3, 4)
     /\ calculatePodEffectiveResource(pods[i], "cpu") = FromInt(1)
     /\ calculatePodEffectiveResource(pods[i], "pods") = FromInt(1)

\* the total of one side of the aggregated usage for a resource and a node,
\* 0 when there is none
Total(usage, side, resourceName, nodeName) ==
  IF resourceName \notin DOMAIN usage THEN Zero
  ELSE IF side = "requests"
    THEN Get(usage[resourceName].requests, nodeName, Zero)
  ELSE Get(usage[resourceName].limits, nodeName, Zero)

isTerminal(pod) == pod.hasStatus /\ pod.phase \in {"Succeeded", "Failed"}

withoutTerminal(list) ==
  FilterIdx(list, {i \in 1..Len(list) : ~isTerminal(list[i])}, 1)

\* C2: a pod whose phase is Succeeded or Failed contributes to no cell of
\* the aggregated totals (dropping these pods from the list leaves the
\* totals as they are) and is in no node's pod list.
C2_TerminalPodsNeverCounted ==
  displayed =>
    LET list == filteredPods
        byNode == podsByNodeOf(list)
    IN /\ nodeResourceUsageOf(list) = nodeResourceUsageOf(withoutTerminal(list))
       /\ \A n \in DOMAIN byNode :
            \A i \in 1..Len(byNode[n]) : ~isTerminal(byNode[n][i])

\* a Succeeded pod with a cpu request, placed on a node that also runs a
\* counted pod, under a namespace selection
C2_Witness ==
  /\ displayed
  /\ selectedNamespaces = {"x"}
  /\ LET list == filteredPods
     IN \E i \in 1..Len(list) :
           /\ list[i].phase = "Succeeded"
           /\ list[i].nodeName = "a"
  /\ Total(nodeResourceUsage, "requests", "cpu", "a") = FromInt(2)

structurallyValidNodes == filterValidNodes(nodes)
structurallyValidPods ==
  FilterIdx(pods, {i \in 1..Len(pods) : isValidPodIgnoringPhase(pods[i])}, 1)

\* the used figure a node's bar shows: the larger of its two totals
nodeEffective(usage, resourceName, nodeName) ==
  Larger(Total(usage, "requests", resourceName, nodeName),
         Total(usage, "limits", resourceName, nodeName))

\* C3: the cluster-level used figure of a resource is the sum over the valid
\* nodes of max(requests total, limits total), the figure of the node's bar;
\* in the two-node scenario the cluster shows 3 used of 8 cores (37.5%).
C3_ClusterUsedIsSumOfEffective ==
  displayed =>
    LET usage == nodeResourceUsage
        stats == clusterStats
        valid == structurallyValidNodes
    IN /\ \A r \in selectedResources :
            stats.resourceStats[r].used =
              SumNums([i \in 1..Len(valid) |->
                         nodeEffective(usage, r, valid[i].name)])
       /\ (/\ nodes = <<nodeB, nodeA>>
           /\ pods = <<podRun>>
           /\ "cpu" \in selectedResources)
          => /\ stats.resourceStats["cpu"].total = FromInt(8)
             /\ stats.resourceStats["cpu"].used = FromInt(3)
             /\ stats.resourceStats["cpu"].percentage = Ratio(75, 2)

\* the used value the statistics are to give a node: its requests total
\* when that is not 0, else its limits total
RequestsElseLimits(usage, resourceName, nodeName) ==
  IF Total(usage, "requests", resourceName, nodeName) # Zero
    THEN Total(usage, "requests", resourceName, nodeName)
  ELSE Total(usage, "limits", resourceName, nodeName)

Orderings(n) ==
  {f \in [1..n -> 1..n] : \A i, j \in 1..n : i # j => f[i] # f[j]}

Permuted(seq, f) == [i \in 1..Len(seq) |-> seq[f[i]]]

\* the list with the containers of every pod permuted: by f when the pod
\* has as many containers as f permutes
withContainersPermuted(list, f) ==
  [i \in 1..Len(list) |->
     IF Len(list[i].containers) = Len(f)
       THEN [list[i] EXCEPT !.containers = Permuted(@, f)]
     ELSE list[i]]

C6_InvalidEntriesExcluded ==
  displayed =>
    LET cleanFiltered == filteredPodsOf(structurallyValidPods, selectedNamespaces)
        cleanUsage == nodeResourceUsageOf(cleanFiltered)
    IN /\ validNodes = validNodesOf(structurallyValidNodes)
       /\ availableResources = availableResourcesOf(structurallyValidNodes)
       /\ nodeResourceUsage = cleanUsage
       /\ podsByNode = podsByNodeOf(cleanFiltered)
       /\ unscheduledPods = unscheduledPodsOf(cleanFiltered)
       /\ clusterStats = clusterStatsOf(structurallyValidNodes, cleanFiltered,
                                        cleanUsage, selectedResources)

\* C7: computing the derived structures raises no exception, whatever the
\* snapshots contain and whatever the namespace selection.
C7_RenderNeverThrows == ~renderError

(***************************************************************************)
(* Properties of the quantity parsers                                      *)
(***************************************************************************)
IsDigits(s) == Len(s) >= 1 /\ \A i \in 1..Len(s) : s[i] \in Digit

\* digits with an optional fractional part
IsDecimalLiteral(s) ==
  \/ IsDigits(s)
  \/ \E x \in 2..(Len(s) - 1) :
        /\ s[x] = "."
        /\ IsDigits(SubSeq(s, 1, x - 1))
        /\ IsDigits(SubSeq(s, x + 1, Len(s)))

\* the quantity grammar of a resource kind
MatchesGrammar(resourceKind, s) ==
  \/ IsDecimalLiteral(s)
  \/ /\ resourceKind = "cpu"
     /\ Len(s) >= 2
     /\ s[Len(s)] = "m"
     /\ IsDecimalLiteral(SubSeq(s, 1, Len(s) - 1))
  \/ /\ resourceKind # "cpu"
     /\ Len(s) >= 3
     /\ s[Len(s)] = "i"
     /\ s[Len(s) - 1] \in MemoryUnitLetter
     /\ IsDecimalLiteral(SubSeq(s, 1, Len(s) - 2))

\* C8 as stated: the empty string and every string outside the kind's
\* grammar normalizes to 0.
C8_UnparseableIsZero ==
  (pc = "done" /\ ~MatchesGrammar(kind, quantity)) => parsed = Zero

\* C8 as amended: the empty string and every string that does not start
\* with a number (parseFloat gives NaN) normalizes to 0; a string outside
\* the grammar that starts with a number normalizes to that number.
C8_UnparseableFallsBackToParseFloat ==
  (pc = "done" /\ ~MatchesGrammar(kind, quantity)) =>
    /\ (quantity = <<>> \/ IsNaN(ParseFloat(quantity))) => parsed = Zero
    /\ ~IsNaN(ParseFloat(quantity)) => parsed = ParseFloat(quantity)
    /\ ~IsNaN(parsed)

\* a string outside the grammar that parses to its leading number
C8_Witness ==
  /\ pc = "done"
  /\ kind = "memory"
  /\ quantity = <<"5", "G">>
  /\ ~MatchesGrammar(kind, quantity)
  /\ parsed = FromInt(5)

\* C9: the quantity parser returns a finite, non-negative number for every
\* string and every resource kind.
C9_ParsedFiniteNonNegative ==
  pc = "done" => (IsFinite(parsed) /\ Sign(parsed) >= 0)

\* the value of a decimal literal: its digits weighted by their position
DecimalValue(s) ==
  LET dot == IF \E x \in 1..Len(s) : s[x] = "."
               THEN CHOOSE x \in 1..Len(s) : s[x] = "." ELSE Len(s) + 1
      nFrac == IF dot > Len(s) THEN 0 ELSE Len(s) - dot
      scaled == SumNums([i \in 1..Len(s) |->
                  IF i < dot THEN FromInt(DigitVal(s[i]) * Pow(10, nFrac + dot - 1 - i))
                  ELSE IF i > dot THEN FromInt(DigitVal(s[i]) * Pow(10, Len(s) - i))
                  ELSE Zero])
  IN NumDiv(scaled, FromInt(Pow(10, nFrac)))

\* C10: parseCPUQuantity gives d/1000 for a decimal literal d followed by
\* "m" and d for d alone; "500m" gives 0.5, "2" gives 2 and "" gives 0.
C10_CPUQuantityValue ==
  (pc = "done" /\ kind = "cpu") =>
    /\ IsDecimalLiteral(quantity) => parsed = DecimalValue(quantity)
    /\ (/\ Len(quantity) >= 2
        /\ quantity[Len(quantity)] = "m"
        /\ IsDecimalLiteral(SubSeq(quantity, 1, Len(quantity) - 1)))
       => parsed = NumDiv(DecimalValue(SubSeq(quantity, 1, Len(quantity) - 1)),
                          FromInt(1000))
    /\ quantity = Q500m => parsed = Ratio(1, 2)
    /\ quantity = <<"2">> => parsed = FromInt(2)
    /\ quantity = <<>> => parsed = Zero

\* "500m" parsed as half a core
C10_Witness ==
  /\ pc = "done"
  /\ kind = "cpu"
  /\ quantity = Q500m
  /\ parsed = Ratio(1, 2)

\* x * 1024^n, by n multiplications
RECURSIVE Times1024(_, _)
Times1024(x, n) == IF n = 0 THEN x ELSE NumMulInt(Times1024(x, n - 1), 1024)

\* the position of a binary suffix in Ki, Mi, Gi, Ti, Pi, Ei
SuffixRank(letter) ==
  CASE letter = "K" -> 1 [] letter = "M" -> 2 [] letter = "G" -> 3
    [] letter = "T" -> 4 [] letter = "P" -> 5 [] letter = "E" -> 6

\* C11: parseMemoryQuantity gives d * 1024^n for a decimal literal d followed
\* by the n-th suffix of Ki, Mi, Gi, Ti, Pi, Ei and d for d alone; "1Gi"
\* gives 1073741824, "512Mi" gives 536870912 and "0" gives 0.
C11_MemoryQuantityValue ==
  (pc = "done" /\ kind = "memory") =>
    /\ IsDecimalLiteral(quantity) => parsed = DecimalValue(quantity)
    /\ (/\ Len(quantity) >= 3
        /\ quantity[Len(quantity)] = "i"
        /\ quantity[Len(quantity) - 1] \in MemoryUnitLetter
        /\ IsDecimalLiteral(SubSeq(quantity, 1, Len(quantity) - 2)))
       => parsed = Times1024(DecimalValue(SubSeq(quantity, 1, Len(quantity) - 2)),
                             SuffixRank(quantity[Len(quantity) - 1]))
    /\ quantity = <<"1", "G", "i">> => parsed = FromInt(1073741824)
    /\ quantity = <<"5", "1", "2", "M", "i">> => parsed = FromInt(536870912)
    /\ quantity = <<"0">> => parsed = Zero

\* "1Gi" parsed as 2^30 bytes
C11_Witness ==
  /\ pc = "done"
  /\ kind = "memory"
  /\ quantity = <<"1", "G", "i">>
  /\ parsed = FromInt(1073741824)

(***************************************************************************)
(* Properties of the cluster statistics                                    *)
(***************************************************************************)
\* x clamped to the closed range [0, 100]
Clamp(x) ==
  IF NumLt(x, Zero) THEN Zero
  ELSE IF NumLt(FromInt(100), x) THEN FromInt(100) ELSE x

\* pct is the percentage the statistics are to show for used of total
IsClampedShare(pct, used, total) ==
  /\ ~NumLt(pct, Zero)
  /\ ~NumLt(FromInt(100), pct)
  /\ NumLt(Zero, total)
       => pct = Clamp(NumMulInt(NumDiv(used, total), 100))
  /\ total = Zero => pct = Zero

\* C12: for every selected resource the cluster-level percentage and every
\* per-node percentage lie in [0, 100], are used/total*100 clamped to that
\* range when total > 0, and are 0 when total is 0.
C12_PercentagesClamped ==
  displayed =>
    LET stats == clusterStats
    IN \A r \in selectedResources :
          /\ IsClampedShare(stats.resourceStats[r].percentage,
                            stats.resourceStats[r].used,
                            stats.resourceStats[r].total)
          /\ \A i \in 1..Len(stats.resourceStats[r].nodePercentages) :
               IsClampedShare(stats.resourceStats[r].nodePercentages[i].percentage,
                              stats.resourceStats[r].nodePercentages[i].used,
                              stats.resourceStats[r].nodePercentages[i].total)

\* the same, for the snapshots in which no aggregated total is negative
C12_PercentagesClampedWhenNonNegative ==
  displayed =>
    LET stats == clusterStats
    IN \A r \in selectedResources :
          (\A i \in 1..Len(stats.resourceStats[r].nodePercentages) :
              ~NumLt(stats.resourceStats[r].nodePercentages[i].used, Zero))
          => /\ IsClampedShare(stats.resourceStats[r].percentage,
                               stats.resourceStats[r].used,
                               stats.resourceStats[r].total)
             /\ \A i \in 1..Len(stats.resourceStats[r].nodePercentages) :
                  IsClampedShare(stats.resourceStats[r].nodePercentages[i].percentage,
                                 stats.resourceStats[r].nodePercentages[i].used,
                                 stats.resourceStats[r].nodePercentages[i].total)

(***************************************************************************)
(* Percentiles                                                             *)
(***************************************************************************)
\* the statistics of the sampled node list for cpu, once computed
sampleResourceStats == sampleStats.resourceStats["cpu"]

\* the percentages of the six percentile entries, P100 first
PercentilePercentages(percentiles) ==
  <<percentiles.p100.percentage, percentiles.p99.percentage,
    percentiles.p90.percentage, percentiles.p50.percentage,
    percentiles.p10.percentage, percentiles.p0.percentage>>

\* C13: for a resource with at least one valid node the selected percentiles
\* are monotone: P100 >= P99 >= P90 >= P50 >= P10 >= P0 (percentages).
C13_PercentilesMonotone ==
  (pc = "computed" /\ Len(sampleNodes) >= 1) =>
    LET shares == PercentilePercentages(sampleResourceStats.percentiles)
    IN \A x \in 1..5 : ~NumLt(shares[x], shares[x + 1])

\* a node list whose six percentiles are six different percentages
C13_Witness ==
  /\ pc = "computed"
  /\ Len(sampleNodes) >= 1
  /\ LET shares == PercentilePercentages(sampleResourceStats.percentiles)
     IN \A x \in 1..5 : NumLt(shares[x + 1], shares[x])

\* ceil(x * (1 - p/100)) over the rationals, for integers x >= 0 and p
CeilingOfShare(x, p) == (x * (100 - p) + 99) \div 100

\* entry is one of the entries and stands at 0-based index index when the
\* entries are put in descending order of percentage (entries of equal
\* percentage in any order)
IsAtDescendingIndex(entry, nodePercentages, index) ==
  LET n == Len(nodePercentages)
      above == {j \in 1..n : NumLt(entry.percentage,
                                    nodePercentages[j].percentage)}
      notBelow == {j \in 1..n : ~NumLt(nodePercentages[j].percentage,
                                        entry.percentage)}
  IN /\ \E j \in 1..n : nodePercentages[j] = entry
     /\ Cardinality(above) <= index
     /\ index < Cardinality(notBelow)

\* the percentile entries of rs are the ones the index rule selects, for the
\* percentiles in ps
PercentilesAtIndex(rs, ps) ==
  LET n == Len(rs.nodePercentages)
      selected == [p \in {99, 90, 50, 10} |->
                     IF p = 99 THEN rs.percentiles.p99
                     ELSE IF p = 90 THEN rs.percentiles.p90
                     ELSE IF p = 50 THEN rs.percentiles.p50
                     ELSE rs.percentiles.p10]
  IN /\ \A p \in ps :
          /\ CeilingOfShare(n - 1, p) \in 0..(n - 1)
          /\ selected[p] # null
          /\ IsAtDescendingIndex(selected[p], rs.nodePercentages,
                                 CeilingOfShare(n - 1, p))
     /\ rs.percentiles.p100 # null
     /\ IsAtDescendingIndex(rs.percentiles.p100, rs.nodePercentages, 0)
     /\ rs.percentiles.p0 # null
     /\ IsAtDescendingIndex(rs.percentiles.p0, rs.nodePercentages, n - 1)

\* C14: for n >= 1 valid nodes and p in {99, 90, 50, 10} the selected entry
\* is the one at index ceil((n-1) * (1 - p/100)) of the per-node array in
\* descending order of percentage; P100 is the entry at index 0 and P0 the
\* last one; the index is within 0..n-1 and no percentile is null.
C14_PercentileIndex ==
  (pc = "computed" /\ Len(sampleNodes) >= 1) =>
    PercentilesAtIndex(sampleResourceStats, {99, 90, 50, 10})

\* the same without P99, and with P99 when n - 1 is no multiple of 100
C14_PercentileIndexButP99OfHundreds ==
  (pc = "computed" /\ Len(sampleNodes) >= 1) =>
    PercentilesAtIndex(sampleResourceStats,
                       IF (Len(sampleNodes) - 1) % 100 = 0
                         /\ Len(sampleNodes) > 1
                       THEN {90, 50, 10} ELSE {99, 90, 50, 10})

(***************************************************************************)
(* Distribution                                                            *)
(***************************************************************************)
\* the 1-based indices of the entries whose percentage x is in
\* [10k, 10k + 10), or is 100 when k = 9
InBucket(nodePercentages, k) ==
  {i \in 1..Len(nodePercentages) :
     LET x == nodePercentages[i].percentage
     IN \/ /\ ~NumLt(x, FromInt(10 * k))
           /\ NumLt(x, FromInt(10 * k + 10))
        \/ k = 9 /\ x = FromInt(100)}

RECURSIVE SumOfCounts(_, _)
SumOfCounts(distribution, k) ==
  IF k = 0 THEN 0
  ELSE distribution[Ranges[k]] + SumOfCounts(distribution, k - 1)

\* C15: each valid node is counted in exactly one of the ten buckets, a
\* percentage x in [10k, 10k+10) in bucket k and x = 100 in the last one, so
\* the ten counts sum to the number of valid nodes.
C15_DistributionCountsEachNodeOnce ==
  pc = "computed" =>
    LET rs == sampleResourceStats
    IN /\ DOMAIN rs.distribution = {Ranges[x] : x \in 1..10}
       /\ \A k \in 0..9 :
            rs.distribution[Ranges[k + 1]]
              = Cardinality(InBucket(rs.nodePercentages, k))
       /\ SumOfCounts(rs.distribution, 10)
            = Len(filterValidNodes(sampleNodes))

\* nodes in every bucket, one of them at 100 percent and one at 10 percent
C15_Witness ==
  /\ pc = "computed"
  /\ \A k \in 1..10 : sampleResourceStats.distribution[Ranges[k]] > 0
  /\ \E i \in 1..Len(sampleNodes) :
       sampleResourceStats.nodePercentages[i].percentage = FromInt(100)
  /\ \E i \in 1..Len(sampleNodes) :
       sampleResourceStats.nodePercentages[i].percentage = FromInt(10)

(***************************************************************************)
(* Order of the per-node array                                             *)
(***************************************************************************)
IsDescending(entries) ==
  \A i \in 1..(Len(entries) - 1) :
     ~NumLt(entries[i].percentage, entries[i + 1].percentage)

\* C16: the per-node percentage array produced for each selected resource is
\* sorted descending by percentage.
C16_NodePercentagesDescending ==
  pc = "computed" => IsDescending(sampleResourceStats.nodePercentages)

\* the copy the percentiles are taken from is in descending order and holds
\* the same entries
C16_SortedCopyDescending ==
  pc = "computed" =>
    LET entries == sampleResourceStats.nodePercentages
        sorted == sortedPercentagesOf(entries)
    IN /\ IsDescending(sorted)
       /\ Len(sorted) = Len(entries)
       /\ \A i \in 1..Len(entries) : \E j \in 1..Len(sorted) :
            sorted[j] = entries[i]

(***************************************************************************)
(* No valid node                                                           *)
(***************************************************************************)
\* the node is absent or lacks its metadata, uid, status or capacity
LacksRequiredField(node) ==
  \/ node.isNull
  \/ ~node.hasMetadata
  \/ ~node.hasUid
  \/ ~node.hasStatus
  \/ ~node.hasCapacity

\* C17: when the node snapshot contains zero valid nodes, then for every
\* selected resource all six percentile fields are null, all ten buckets of
\* the distribution are 0, and total, used and percentage are 0.
C17_NoValidNodeAllZero ==
  (displayed /\ \A i \in 1..Len(nodes) : LacksRequiredField(nodes[i])) =>
    LET stats == clusterStats
    IN \A r \in selectedResources :
          /\ stats.resourceStats[r].percentiles
               = [p100 |-> null, p99 |-> null, p90 |-> null,
                  p50 |-> null, p10 |-> null, p0 |-> null]
          /\ \A k \in 1..10 :
               stats.resourceStats[r].distribution[Ranges[k]] = 0
          /\ stats.resourceStats[r].total = Zero
          /\ stats.resourceStats[r].used = Zero
          /\ stats.resourceStats[r].percentage = Zero

\* a snapshot with a node, none valid, pods, and a selected resource
C17_Witness ==
  /\ displayed
  /\ Len(nodes) >= 1
  /\ \A i \in 1..Len(nodes) : LacksRequiredField(nodes[i])
  /\ Len(filteredPods) >= 1
  /\ selectedResources # {}
  /\ clusterStats.totalNodes = 0

(***************************************************************************)
(* The memo cells against the latest snapshots                             *)
(***************************************************************************)
\* C18: after any sequence of node, pod and namespace snapshots interleaved
\* with toggles, every derived structure (valid nodes, per-node totals,
\* per-node pod lists, displayed nodes, role groups) equals the value
\* computed from the latest snapshots and the current selection alone.
C18_DerivedFromLatestSnapshots ==
  displayed =>
    LET displayNodes == displayNodesOf(validNodes, hideEmptyNodes, podsByNode)
    IN /\ memo.validNodes = validNodes
       /\ memo.availableResources = availableResources
       /\ memo.availableNamespaces = availableNamespaces
       /\ memo.filteredPods = filteredPods
       /\ memo.nodeResourceUsage = nodeResourceUsage
       /\ memo.podsByNode = podsByNode
       /\ memo.displayNodes = displayNodes
       /\ memo.nodesByRole = nodesByRoleOf(displayNodes)

\* two valid nodes, two pods, one of them in the selected namespace x, and
\* with the checkbox set only master node a, which runs it, displayed
C18_Witness ==
  /\ displayed
  /\ hideEmptyNodes
  /\ selectedNamespaces = {"x"}
  /\ Len(validNodes) = 2
  /\ Len(pods) = 2
  /\ Len(memo.filteredPods) = 1
  /\ Len(memo.displayNodes) = 1
  /\ Len(memo.nodesByRole) = 1
  /\ memo.nodesByRole[1][1] = "master"

(***************************************************************************)
(* Errors of the watches                                                   *)
(***************************************************************************)
ErrorMessages == {"Error loading nodes", "Error loading events"}

\* what the view fed by watch w shows: SchedulingEvents for the events, the
\* page for the nodes and for the pods
viewFedBy(w) ==
  IF w = "events" /\ eventsMounted THEN schedulingEventsView ELSE pageView

\* C19: in every state in which the watch of the nodes, of the pods or of the
\* events reports an error, the view fed by that watch shows an inline error
\* message, whatever the watch's loaded flag.
C19_WatchErrorShown ==
  \A w \in {"nodes", "pods", "events"} :
     watches[w].error => viewFedBy(w) \in ErrorMessages

\* the same for the watch of the nodes alone
C19_NodesErrorShown ==
  watches["nodes"].error => pageView \in ErrorMessages

\* the same for the watch of the pods alone, and of the events alone
C19_PodsErrorShown ==
  watches["pods"].error => pageView \in ErrorMessages

C19_EventsErrorShown ==
  (eventsMounted /\ watches["events"].error)
    => schedulingEventsView \in ErrorMessages

\* the same for the watch of the events once it has loaded
C19_EventsErrorShownWhenLoaded ==
  (eventsMounted /\ watches["events"].error /\ watches["events"].loaded)
    => schedulingEventsView \in ErrorMessages

(***************************************************************************)
(* Namespace filtering                                                     *)
(***************************************************************************)
\* the pods of the snapshot that are to be considered: all of them when no
\* namespace is selected, else those of the selected namespaces
ConsideredPods ==
  IF selectedNamespaces = {} THEN pods
  ELSE FilterIdx(pods, {i \in 1..Len(pods) :
                          \E n \in selectedNamespaces : pods[i].namespace = n}, 1)

\* C20: with no namespace selected every pod of the snapshot is considered,
\* otherwise exactly the pods of the selected namespaces, for the per-node
\* totals, the per-node pod lists and the unscheduled-pod list alike; so
\* with the last namespace deselected the pods of all namespaces are back.
C20_NamespaceFiltering ==
  /\ memo.filteredPods = ConsideredPods
  /\ memo.nodeResourceUsage = nodeResourceUsageOf(ConsideredPods)
  /\ memo.podsByNode = podsByNodeOf(ConsideredPods)
  /\ unscheduledPodsOf(memo.filteredPods) = unscheduledPodsOf(ConsideredPods)
  /\ selectedNamespaces = {} => memo.filteredPods = pods

\* a pod of namespace x on node a and a pod of namespace y, namespace x
\* selected: the totals and the pod list of node a hold the first pod only
C20_Witness ==
  /\ selectedNamespaces = {"x"}
  /\ pods = <<podRun, podTwo>>
  /\ memo.podsByNode["a"] = <<podRun>>
  /\ memo.nodeResourceUsage["cpu"].requests["a"] = FromInt(2)

(***************************************************************************)
(* "Only show nodes with workloads"                                        *)
(***************************************************************************)
\* some entry of the pod snapshot is structurally valid, not in a terminal
\* phase, of the selected namespaces (of any, when none is selected) and
\* placed on the node of that name
HasWorkload(nodeName) ==
  \E i \in 1..Len(pods) :
     /\ ~pods[i].isNull
     /\ pods[i].hasSpec /\ pods[i].hasMetadata /\ pods[i].hasUid
     /\ pods[i].hasStatus
     /\ Len(pods[i].containers) > 0
     /\ ~isTerminal(pods[i])
     /\ selectedNamespaces # {} => pods[i].namespace \in selectedNamespaces
     /\ pods[i].nodeName = nodeName

NodesWithWorkloads ==
  FilterIdx(structurallyValidNodes,
            {i \in 1..Len(structurallyValidNodes) :
               HasWorkload(structurallyValidNodes[i].name)}, 1)

displayedNodes == [i \in 1..Len(memo.displayNodes) |-> memo.displayNodes[i].node]

\* C21: with "Only show nodes with workloads" enabled, the displayed nodes
\* are exactly the valid nodes on which at least one structurally valid,
\* non-terminal pod of the currently selected namespaces is placed; with it
\* disabled, they are all valid nodes; after any sequence of snapshots,
\* namespace toggles and option toggles.
C21_DisplayedNodes ==
  displayedNodes = IF hideEmptyNodes THEN NodesWithWorkloads
                   ELSE structurallyValidNodes

\* the option set, namespace x selected, nodes a and b valid: node a holds
\* only a Succeeded pod of x, node b a running pod of x, so node b alone is
\* displayed
C21_Witness ==
  /\ hideEmptyNodes
  /\ selectedNamespaces = {"x"}
  /\ Len(structurallyValidNodes) = 2
  /\ pods = <<podLim, podDone>>
  /\ Len(displayedNodes) = 1
  /\ displayedNodes[1].name = "b"

(***************************************************************************)
(* Properties of the scheduling-failure classifier and the failure table   *)
(***************************************************************************)
\* the conditions of a pod, none when its status has no list of them
ConditionsOf(pod) ==
  IF pod.hasStatus /\ pod.hasConditions THEN pod.conditions ELSE <<>>

\* the indexes of the conditions of type PodScheduled with status False
FailedToSchedule(pod) ==
  {i \in 1..Len(ConditionsOf(pod)) :
     /\ ConditionsOf(pod)[i].type = "PodScheduled"
     /\ ConditionsOf(pod)[i].status = "False"}

FirstFailedToSchedule(pod) ==
  ConditionsOf(pod)[CHOOSE i \in FailedToSchedule(pod) :
                      \A j \in FailedToSchedule(pod) : i <= j]

\* C22: getSchedulingFailureReason returns null when the pod has no
\* condition of type PodScheduled with status False; when it has one, it
\* returns the text derived from the condition's message if a message is
\* present, and the condition's reason otherwise.
C22_FailureReason ==
  pc = "rendered" =>
    \A i \in 1..Len(failures.classified) :
       LET pod == failures.classified[i].pod
           reason == failures.classified[i].reason
       IN IF FailedToSchedule(pod) = {} THEN reason.isNull
          ELSE /\ ~reason.isNull
               /\ reason.text =
                    IF FirstFailedToSchedule(pod).message # ""
                      THEN parseSchedulingFailureMessage(FirstFailedToSchedule(pod).message)
                    ELSE FirstFailedToSchedule(pod).reason

\* C22 as amended: the same, and when the condition has neither a message
\* nor a reason the text is 'Unknown reason'.
C22_FailureReasonOrUnknown ==
  pc = "rendered" =>
    \A i \in 1..Len(failures.classified) :
       LET pod == failures.classified[i].pod
           reason == failures.classified[i].reason
       IN IF FailedToSchedule(pod) = {} THEN reason.isNull
          ELSE /\ ~reason.isNull
               /\ reason.text =
                    IF FirstFailedToSchedule(pod).message # ""
                      THEN parseSchedulingFailureMessage(FirstFailedToSchedule(pod).message)
                    ELSE IF FirstFailedToSchedule(pod).reason # ""
                      THEN FirstFailedToSchedule(pod).reason
                    ELSE "Unknown reason"

\* three unscheduled pods classified: one by the message of the first of its
\* two failed conditions, one by its reason, one with neither
C22_Witness ==
  /\ pc = "rendered"
  /\ Len(failures.classified) = 3
  /\ failures.classified[1].pod = podUnscheduledReasonOnly
  /\ failures.classified[1].reason = Text("Unschedulable")
  /\ failures.classified[2].pod = podUnscheduledCpuAgain
  /\ failures.classified[2].reason = Text("1 Insufficient cpu")
  /\ failures.classified[3].pod = podUnscheduledBare
  /\ failures.classified[3].reason = Text("Unknown reason")

\* the unscheduled pods of the list: structurally valid, phase Pending, no
\* node name
IsUnscheduled(pod) ==
  /\ ~pod.isNull
  /\ pod.hasSpec /\ pod.hasMetadata /\ pod.hasUid /\ pod.hasStatus
  /\ Len(pod.containers) > 0
  /\ pod.phase = "Pending"
  /\ pod.nodeName = ""

Unscheduled == {i \in 1..Len(failurePods) : IsUnscheduled(failurePods[i])}

\* the classification key of a pod, 'Unknown reason' when the classifier
\* returns null
ClassificationKey(pod) ==
  IF getSchedulingFailureReason(pod).isNull THEN "Unknown reason"
  ELSE getSchedulingFailureReason(pod).text

RECURSIVE SumOfGroupCounts(_)
SumOfGroupCounts(entries) ==
  IF entries = <<>> THEN 0 ELSE Head(entries)[2] + SumOfGroupCounts(Tail(entries))

\* C23: the scheduling-failure table groups the unscheduled pods by
\* classification key, 'Unknown reason' when the classifier returns null:
\* every unscheduled pod is counted under exactly one key, the group counts
\* sum to the displayed number of unscheduled pods, and the groups are
\* listed by count, highest first.
C23_FailureTable ==
  pc = "rendered" =>
    LET table == failures.schedulingFailures
        keyOf == [i \in Unscheduled |-> ClassificationKey(failurePods[i])] @@ NoMap
    IN /\ \A x, y \in 1..Len(table) : table[x][1] = table[y][1] => x = y
       /\ \A i \in Unscheduled : \E x \in 1..Len(table) : table[x][1] = keyOf[i]
       /\ \A x \in 1..Len(table) :
            table[x][2] = Cardinality({i \in Unscheduled : keyOf[i] = table[x][1]})
       /\ \A x \in 1..Len(table) : table[x][2] > 0
       /\ SumOfGroupCounts(table) = failures.unscheduledPods
       /\ failures.unscheduledPods = Cardinality(Unscheduled)
       /\ \A x \in 1..(Len(table) - 1) : table[x][2] >= table[x + 1][2]

\* a pod without conditions listed before two pods short of cpu: the group
\* of the two comes first, the group 'Unknown reason' second
C23_Witness ==
  /\ pc = "rendered"
  /\ failurePods = <<podUnscheduledNoConditions, podUnscheduledCpu,
                     podUnscheduledCpuAgain>>
  /\ failures.schedulingFailures =
       <<<<"1 Insufficient cpu", 2>>, <<"Unknown reason", 1>>>>
  /\ failures.unscheduledPods = 3

(***************************************************************************)
(* Properties of the formatters                                            *)
(***************************************************************************)
\* 1024^k <= b for a positive finite b
AtLeastUnit(b, k) == NumGe(b, MkNum(1, 1, 10 * k))

\* min(4, the largest k with 1024^k <= b), 0 when there is none
UnitIndexOf(b) ==
  IF \E k \in 0..4 : AtLeastUnit(b, k)
    THEN CHOOSE k \in 0..4 : AtLeastUnit(b, k) /\ (k < 4 => ~AtLeastUnit(b, k + 1))
  ELSE 0

\* the decimal string with two places stands for the number hundredths/100
RECURSIVE NumberOfDigits(_)
NumberOfDigits(s) ==
  IF s = "" THEN Zero
  ELSE NumAdd(NumMulInt(NumberOfDigits(SubSeq(s, 1, Len(s) - 1)), 10),
              FromInt(DigitVal(CharAt(s, Len(s)))))

AllDigits(s) == Len(s) > 0 /\ \A i \in 1..Len(s) : CharAt(s, i) \in Digit

HasTwoPlaces(s) ==
  /\ Len(s) >= 4
  /\ CharAt(s, Len(s) - 2) = "."
  /\ AllDigits(SubSeq(s, 1, Len(s) - 3))
  /\ AllDigits(SubSeq(s, Len(s) - 1, Len(s)))
  /\ (Len(s) > 4 => CharAt(s, 1) # "0")

\* 100 times the number the string with two places stands for
HundredthsOf(s) ==
  NumberOfDigits(SubSeq(s, 1, Len(s) - 3) \o SubSeq(s, Len(s) - 1, Len(s)))

\* the string is the number rounded to two places: 100 times the number lies
\* within a half of the string's hundredths, the upper half excluded
PrintsWithTwoPlaces(s, x) ==
  /\ HasTwoPlaces(s)
  /\ NumGe(NumAdd(NumMulInt(x, 200), FromInt(1)), NumMulInt(HundredthsOf(s), 2))
  /\ ~NumGe(NumMulInt(x, 200), NumAdd(NumMulInt(HundredthsOf(s), 2), FromInt(1)))

\* C24: formatMemory of a byte count b > 0 picks the unit of index
\* min(4, largest k with 1024^k <= b), 0 when b < 1024, and prints
\* b / 1024^index with two decimal places; 0 is printed as "0" "B";
\* 1073741824 is "1.00" "GiB" and 1536 is "1.50" "KiB"
C24_FormatMemory ==
  pc = "memory" =>
    /\ (IsFinite(value) /\ value.n > 0) =>
         /\ formatted.unit = formatUnits[UnitIndexOf(value) + 1]
         /\ PrintsWithTwoPlaces(formatted.value,
              NumDiv(value, MkNum(1, 1, 10 * UnitIndexOf(value))))
    /\ value = Zero => formatted = [value |-> "0", unit |-> "B"]
    /\ value = FromInt(1536) => formatted = [value |-> "1.50", unit |-> "KiB"]
    /\ value = MkNum(1, 1, 30) => formatted = [value |-> "1.00", unit |-> "GiB"]

C24_Witness ==
  /\ pc = "memory"
  /\ value = MkNum(5, 1, 50)
  /\ formatted = [value |-> "5120.00", unit |-> "TiB"]

\* the digits of the quotient of the number of the digits s by m, and the
\* remainder
RECURSIVE dividedDigits(_, _)
dividedDigits(s, m) ==
  IF s = "" THEN [q |-> "", r |-> 0]
  ELSE LET p == dividedDigits(SubSeq(s, 1, Len(s) - 1), m)
           cur == p.r * 10 + DigitVal(CharAt(s, Len(s)))
       IN [q |-> p.q \o DigitChar(cur \div m), r |-> cur % m]

RECURSIVE StripZeros(_)
StripZeros(s) ==
  IF Len(s) > 1 /\ CharAt(s, 1) = "0" THEN StripZeros(Tail(s)) ELSE s

\* the digits of the number of the digits s divided by 2^e, "" when 2^e does
\* not divide it
RECURSIVE HalvedDigits(_, _)
HalvedDigits(s, e) ==
  IF e = 0 THEN s
  ELSE LET m == IF e >= 10 THEN 1024 ELSE 2
           p == dividedDigits(s, m)
       IN IF p.r # 0 THEN ""
          ELSE HalvedDigits(StripZeros(p.q), e - (IF e >= 10 THEN 10 ELSE 1))

RECURSIVE Zeros(_)
Zeros(len) == IF len = 0 THEN "" ELSE "0" \o Zeros(len - 1)

\* a decimal integer: digits without a leading zero
IsNaturalText(s) == AllDigits(s) /\ (Len(s) > 1 => CharAt(s, 1) # "0")

\* the digits s stand for the double n * 2^e, n > 0 and odd
NaturalTextDenotes(s, n, e) ==
  /\ IsNaturalText(s)
  /\ IF e >= 0 THEN HalvedDigits(s, e) = IntDigits(n)
     ELSE FALSE

\* whole "." fraction stands for n * 2^e, n > 0 and odd, e < 0: the number
\* of all its digits times 2^-e is n followed by a zero for every digit of
\* the fraction
FractionTextDenotes(whole, fraction, n, e) ==
  /\ IsNaturalText(whole)
  /\ AllDigits(fraction)
  /\ e < 0
  /\ ScaledDigits(StripZeros(whole \o fraction), 0 - e)
       = IntDigits(n) \o Zeros(Len(fraction))

PointOf(s) ==
  IF \E i \in 1..Len(s) : CharAt(s, i) = "."
    THEN CHOOSE i \in 1..Len(s) : CharAt(s, i) = "." ELSE 0

\* s is a decimal number without sign that stands for n * 2^e, n > 0
PositiveTextDenotes(s, n, e) ==
  IF PointOf(s) = 0 THEN NaturalTextDenotes(s, n, e)
  ELSE FractionTextDenotes(SubSeq(s, 1, PointOf(s) - 1),
                           SubSeq(s, PointOf(s) + 1, Len(s)), n, e)

\* s is a bare decimal number, with no unit, that stands for the finite x
BareNumber(s, x) ==
  IF x.n = 0 THEN s = "0"
  ELSE IF x.n < 0
    THEN Len(s) > 1 /\ CharAt(s, 1) = "-" /\ PositiveTextDenotes(Tail(s), 0 - x.n, x.e)
  ELSE PositiveTextDenotes(s, x.n, x.e)

\* s is a bare decimal integer, with no unit, that stands for the finite x
BareInteger(s, x) == BareNumber(s, x) /\ PointOf(s) = 0

IsWholeNumber(x) == IsFinite(x) /\ (x.n = 0 \/ (x.d = 1 /\ x.e >= 0))

InMemoryUnits(s, x) == s = formatMemory(x).value \o " " \o formatMemory(x).unit

\* C25 as stated: the generic formatter prints a value as a bare integer when
\* the resource is "pods" or the value is a whole number, and every other
\* value as the formatMemory value and unit
C25_BareIntegerOrMemoryUnits ==
  (pc = "generic" /\ IsFinite(value)) =>
    IF resourceType = "pods" \/ IsWholeNumber(value)
      THEN BareInteger(formatted, value)
    ELSE InMemoryUnits(formatted, value)

\* C25: the generic formatter prints a value as a bare number without a
\* unit, an integer when the value is whole, when the resource is "pods" or
\* the value is a whole number, and every other value as the formatMemory
\* value and unit
C25_BareNumberOrMemoryUnits ==
  (pc = "generic" /\ IsFinite(value)) =>
    IF resourceType = "pods" \/ IsWholeNumber(value)
      THEN /\ BareNumber(formatted, value)
           /\ IsWholeNumber(value) => BareInteger(formatted, value)
    ELSE InMemoryUnits(formatted, value)

\* 2.5 pods are printed as "2.5", 2.5 of another resource as "2.50 B"
C25_Witness ==
  /\ pc = "generic"
  /\ value = MkNum(5, 1, 0 - 1)
  /\ \/ resourceType = "pods" /\ formatted = "2.5"
     \/ resourceType = "ephemeral-storage" /\ formatted = "2.50 B"

(***************************************************************************)
(* Properties of the role groups                                           *)
(***************************************************************************)
\* the characters of the role names in alphabetical order, punctuation first
Letters == "-,abcdefghijklmnopqrstuvwxyz"

LetterRank(c) == CHOOSE i \in 1..Len(Letters) : CharAt(Letters, i) = c

\* a comes before b alphabetically
RECURSIVE TextBefore(_, _)
TextBefore(a, b) ==
  IF b = "" THEN FALSE
  ELSE IF a = "" THEN TRUE
  ELSE IF Head(a) # Head(b)
    THEN LetterRank(CharAt(a, 1)) < LetterRank(CharAt(b, 1))
  ELSE TextBefore(Tail(a), Tail(b))

\* the roles of a node: the names of its label keys with the prefix
\* node-role.kubernetes.io/ whose value is "" or "true"
RolesOfNode(node) ==
  {l.rest : l \in {x \in node.labels : /\ x.prefix = RolePrefix
                                       /\ x.rest # ""
                                       /\ x.value \in {"", "true"}}}

\* the list holds the roles of the set, each once, in alphabetical order
IsSortedListOf(list, S) ==
  /\ {list[i] : i \in 1..Len(list)} = S
  /\ \A i \in 1..Len(list) - 1 : TextBefore(list[i], list[i + 1])

\* the key of the group of a node with the roles S
IsRoleKeyOf(key, group, S) ==
  /\ IsSortedListOf(group.roles, S)
  /\ key = (IF S = {} THEN "no-role" ELSE JoinRoles(group.roles))

HasMasterRole(group) ==
  \E i \in 1..Len(group.roles) : group.roles[i] \in {"master", "control-plane"}

OnlyWorkerRole(group) == group.roles = <<"worker">>

\* the groups of the compact view that list the displayed node at position i
GroupsOfNode(i) ==
  {x \in 1..Len(memo.nodesByRole) :
     \E j \in 1..Len(memo.nodesByRole[x][2].nodes) :
       memo.nodesByRole[x][2].nodes[j] = memo.displayNodes[i]}

\* C26: in compact view every displayed node is in exactly one role group,
\* the one keyed by the sorted list of its roles or by "no-role"; the groups
\* with master or control-plane come first, then the group of the role
\* worker only, then the others alphabetically by key
C26_RoleGroups ==
  pc = "rendered" =>
    /\ \A i \in 1..Len(memo.displayNodes) :
         /\ Cardinality(GroupsOfNode(i)) = 1
         /\ \A x \in GroupsOfNode(i) :
              /\ IsRoleKeyOf(memo.nodesByRole[x][1], memo.nodesByRole[x][2],
                             RolesOfNode(memo.displayNodes[i].node))
              /\ Cardinality({j \in 1..Len(memo.nodesByRole[x][2].nodes) :
                    memo.nodesByRole[x][2].nodes[j] = memo.displayNodes[i]}) = 1
    /\ \A x \in 1..Len(memo.nodesByRole) :
         \A j \in 1..Len(memo.nodesByRole[x][2].nodes) :
           \E i \in 1..Len(memo.displayNodes) :
             memo.nodesByRole[x][2].nodes[j] = memo.displayNodes[i]
    /\ \A x, y \in 1..Len(memo.nodesByRole) :
         x < y =>
           /\ memo.nodesByRole[x][1] # memo.nodesByRole[y][1]
           /\ HasMasterRole(memo.nodesByRole[y][2]) => HasMasterRole(memo.nodesByRole[x][2])
           /\ (OnlyWorkerRole(memo.nodesByRole[y][2])
                 => \/ HasMasterRole(memo.nodesByRole[x][2])
                    \/ OnlyWorkerRole(memo.nodesByRole[x][2]))
           /\ (/\ ~HasMasterRole(memo.nodesByRole[x][2])
               /\ ~OnlyWorkerRole(memo.nodesByRole[x][2]))
                 => TextBefore(memo.nodesByRole[x][1], memo.nodesByRole[y][1])

\* an infra node, a worker and a control-plane node in three groups
C26_Witness ==
  /\ pc = "rendered"
  /\ ~hideEmptyNodes
  /\ nodes = <<nodeInfra, nodeWorker, nodeControlPlane>>
  /\ Len(memo.displayNodes) = 3
  /\ [x \in 1..Len(memo.nodesByRole) |-> memo.nodesByRole[x][1]]
       = <<"control-plane,master", "worker", "infra">>

(***************************************************************************)
(* The generic parser and the memory parser                                *)
(***************************************************************************)
\* the generic parser returned the string's plain number
PlainNumberBranch == ~IsNaN(ParseFloat(quantity)) /\ ~endsWithUnitLetter(quantity)

\* C27: parseGenericResource returns for every string the number that
\* parseMemoryQuantity returns for it; its plain-number branch never gives
\* another value than the memory parser
C27_GenericAsMemory ==
  (pc = "done" /\ kind \notin {"cpu", "memory"}) =>
    parsed = parseMemoryQuantity(quantity)

\* "5x" is parsed by the plain-number branch, ".5" as well; both are 5 and
\* 0.5 for the memory parser, which does not match them
C27_Witness ==
  /\ pc = "done"
  /\ kind \notin {"cpu", "memory"}
  /\ PlainNumberBranch
  /\ ~memoryMatch(quantity).ok
  /\ quantity = <<"5", "x">>
  /\ parsed = FromInt(5)

(***************************************************************************)
(* Properties of the totals and the pod lists                              *)
(***************************************************************************)
\* the pods listed for a node, none for a node without a list
ListedPods(nodeName) == Get(memo.podsByNode, nodeName, <<>>)

\* the sum over the pods listed for the node of their containers' parsed
\* entries of one side
SumOfListed(side, resourceName, nodeName) ==
  SumNums([i \in 1..Len(ListedPods(nodeName)) |->
             SumParsed(ListedPods(nodeName)[i], side, resourceName)])

NoCell(side, resourceName, nodeName) ==
  \/ resourceName \notin DOMAIN memo.nodeResourceUsage
  \/ nodeName \notin DOMAIN (IF side = "requests"
                               THEN memo.nodeResourceUsage[resourceName].requests
                             ELSE memo.nodeResourceUsage[resourceName].limits)

\* C28: for every node name and resource, the requests total and the limits
\* total equal the sum, over the pods listed for the node in podsByNode, of
\* the pod's per-container parsed requests and limits; a node with an empty
\* pod list has no non-zero total
C28_TotalsAreSumsOfListedPods ==
  pc = "rendered" =>
    \A n \in NodeNames, r \in ResourceNames, side \in {"requests", "limits"} :
      /\ Total(memo.nodeResourceUsage, side, r, n) = SumOfListed(side, r, n)
      /\ ListedPods(n) = <<>> =>
           Total(memo.nodeResourceUsage, side, r, n) = Zero

\* the same for the nodes whose listed pods have finite sums
C28_TotalsAreSumsWhenFinite ==
  pc = "rendered" =>
    \A n \in NodeNames, r \in ResourceNames, side \in {"requests", "limits"} :
      (\A i \in 1..Len(ListedPods(n)) :
          /\ IsFinite(SumParsed(ListedPods(n)[i], side, r))
          /\ \A c \in 1..Len(ListedPods(n)[i].containers) :
               IsFinite(SumParsed([ListedPods(n)[i] EXCEPT
                                     !.containers = <<@[c]>>], side, r)))
        => /\ Total(memo.nodeResourceUsage, side, r, n) = SumOfListed(side, r, n)
           /\ ListedPods(n) = <<>> => NoCell(side, r, n)

\* the pod of Infinity and -Infinity and a pod of 2 cores on one node: the
\* requests total is 2, the sum of the two listed pods is NaN
C28_Witness ==
  /\ pc = "rendered"
  /\ pods = <<podInfinite, podRun>>
  /\ ListedPods("a") = <<podInfinite, podRun>>
  /\ Total(memo.nodeResourceUsage, "requests", "cpu", "a") = FromInt(2)
  /\ IsNaN(SumOfListed("requests", "cpu", "a"))

(***************************************************************************)
(* Properties of the project selector                                      *)
(***************************************************************************)
buttonText == buttonTextOf(selectedNamespaces, availableNamespaces)

\* the selector is rendered once the nodes have loaded and a namespace is
\* available
selectorDisplayed == childrenDisplayed /\ Len(availableNamespaces) > 0

AvailableNamespaceNames == {availableNamespaces[i] : i \in 1..Len(availableNamespaces)}

\* the pods of an available namespace that the namespace filter leaves out
ExcludedPods ==
  {i \in 1..Len(pods) :
     /\ pods[i].namespace \in AvailableNamespaceNames
     /\ selectedNamespaces # {}
     /\ pods[i].namespace \notin selectedNamespaces}

\* C29: after any sequence of namespace toggles, Select All, Clear All and
\* namespace snapshots the button of the project selector reads
\* "All Projects" only when no pod of an available namespace is left out by
\* the namespace filter
C29_AllProjectsMeansNoPodExcluded ==
  (selectorDisplayed /\ buttonText = "All Projects") => ExcludedPods = {}

\* the same for the states whose selected namespaces are all available
C29_AllProjectsWhenSelectionAvailable ==
  (/\ selectorDisplayed
   /\ buttonText = "All Projects"
   /\ selectedNamespaces \subseteq AvailableNamespaceNames)
    => /\ ExcludedPods = {}
       /\ selectedNamespaces \in {{}, AvailableNamespaceNames}

\* x was selected while it was available; now only y is: the button reads
\* "All Projects" and the pod of y is left out
C29_Witness ==
  /\ selectorDisplayed
  /\ selectedNamespaces = {"x"}
  /\ availableNamespaces = <<"y">>
  /\ buttonText = "All Projects"
  /\ ExcludedPods # {}

(***************************************************************************)
(* Properties of the placement of the pods                                 *)
(***************************************************************************)
\* the list SchedulingPressure shows, computed from the pods it is given
UnscheduledList == unscheduledPodsOf(memo.filteredPods)

\* the nodes whose pod list holds the pod, and how often all lists hold it
NodesListing(pod) ==
  {n \in DOMAIN memo.podsByNode :
     \E j \in 1..Len(memo.podsByNode[n]) : memo.podsByNode[n][j] = pod}

TimesListed(pod) ==
  Cardinality({<<n, j>> \in UNION {{<<m, k>> : k \in 1..Len(memo.podsByNode[m])} :
                                     m \in DOMAIN memo.podsByNode} :
                 memo.podsByNode[n][j] = pod})

IsUnscheduledListed(pod) ==
  \E j \in 1..Len(UnscheduledList) : UnscheduledList[j] = pod

withoutPod(list, pod) ==
  FilterIdx(list, {i \in 1..Len(list) : list[i] # pod}, 1)

\* C30: no pod is both in a node's list and in the unscheduled list; a
\* structurally valid, non-terminal pod of the selected namespaces is in
\* the list of exactly one node, its own, when it has a node name, in the
\* unscheduled list when it is Pending without a node name, and in neither
\* otherwise; a pod of the unscheduled list contributes to no total
C30_ListedOnceOrUnscheduled ==
  pc = "rendered" =>
    \A i \in 1..Len(memo.filteredPods) :
      LET pod == memo.filteredPods[i]
      IN /\ ~(NodesListing(pod) # {} /\ IsUnscheduledListed(pod))
         /\ (isValidPodIgnoringPhase(pod) /\ ~isTerminal(pod)) =>
              /\ pod.nodeName # "" =>
                   /\ NodesListing(pod) = {pod.nodeName}
                   /\ TimesListed(pod) = 1
                   /\ ~IsUnscheduledListed(pod)
              /\ (pod.nodeName = "" /\ pod.phase = "Pending") =>
                   /\ IsUnscheduledListed(pod)
                   /\ NodesListing(pod) = {}
              /\ (pod.nodeName = "" /\ pod.phase # "Pending") =>
                   /\ ~IsUnscheduledListed(pod)
                   /\ NodesListing(pod) = {}
         /\ IsUnscheduledListed(pod) =>
              memo.nodeResourceUsage
                = nodeResourceUsageOf(withoutPod(memo.filteredPods, pod))

\* a Pending pod without a node in the unscheduled list, a Pending pod with
\* a node in that node's list and a pod of unknown phase in neither
C30_Witness ==
  /\ pc = "rendered"
  /\ pods = <<podPending, podUnknown, podStarting>>
  /\ selectedNamespaces = {}
  /\ UnscheduledList = <<podPending>>
  /\ NodesListing(podStarting) = {"b"}
  /\ NodesListing(podUnknown) = {}
  /\ Total(memo.nodeResourceUsage, "requests", "cpu", "b") = FromInt(1)

====
